---- MODULE Spec2Model ----
(***************************************************************************)
(* Model of ThemeManager (browser-utils/theme-manager/theme.manager.ts).   *)
(*                                                                         *)
(* The DOM is modelled by what the manager uses of it: the container's     *)
(* data-theme attribute, the list of rules of the owned style sheet,       *)
(* whether the injected style element is still a child of the container,   *)
(* and the (prefers-color-scheme: light) media query with its change       *)
(* subscription.  Event listeners are observers: a delivery is recorded,   *)
(* a listener may throw, and a listener does not call back into the        *)
(* manager.                                                                *)
(***************************************************************************)
EXTENDS Integers, Sequences, FiniteSets, TLC

(***************************************************************************)
(* Bounds                                                                  *)
(***************************************************************************)
MaxThemes == 2
MaxListeners == 2

(***************************************************************************)
(* Values.  A CSS variable value is a string or a number; a value is the   *)
(* pair <<typeof value, text of `${value}`>>, so that the number 1 and the *)
(* string "1" are different values with the same CSS text.                 *)
(***************************************************************************)
NoTheme == "<null>"
NullData == [k \in {"<null>"} |-> <<"null", "null">>]
EmptyData == [k \in {} |-> <<"string", "">>]
NoError == "none"

Str(s) == <<"string", s>>
Num(s) == <<"number", s>>
Bool(s) == <<"boolean", s>>

typeof(v) == v[1]
ToText(v) == v[2]

(* Characters of the names the model uses (a name is a JS string). *)
Chars(s) ==
  CASE s = "" -> <<>>
    [] s = " " -> <<" ">>
    [] s = "a<b" -> <<"a", "<", "b">>
    [] s = "light" -> <<"l", "i", "g", "h", "t">>
    [] s = "dark" -> <<"d", "a", "r", "k">>
    [] s = "default" -> <<"d", "e", "f", "a", "u", "l", "t">>
    [] s = "--a" -> <<"-", "-", "a">>
    [] s = "--b" -> <<"-", "-", "b">>
    [] OTHER -> <<"?">>

RECURSIVE TrimStart(_)
TrimStart(cs) ==
  IF cs # <<>> /\ Head(cs) = " " THEN TrimStart(Tail(cs)) ELSE cs

RECURSIVE TrimEnd(_)
TrimEnd(cs) ==
  IF cs # <<>> /\ cs[Len(cs)] = " " THEN TrimEnd(SubSeq(cs, 1, Len(cs) - 1)) ELSE cs

trim(cs) == TrimEnd(TrimStart(cs))

UnsafeChars == {"<", ">", "\"", "'", "&"}

isValidThemeName(themeName) ==
  /\ Len(trim(Chars(themeName))) > 0
  /\ \A i \in 1..Len(Chars(themeName)) : Chars(themeName)[i] \notin UnsafeChars

isValidThemeData(themeData) ==
  /\ themeData # NullData
  /\ \A key \in DOMAIN themeData :
       /\ Len(trim(Chars(key))) > 0
       /\ typeof(themeData[key]) \in {"string", "number"}

(* {...a, ...b} *)
Merge(a, b) ==
  [k \in (DOMAIN a) \cup (DOMAIN b) |-> IF k \in DOMAIN b THEN b[k] ELSE a[k]]

(* The declarations `${key}: ${value}` of a rule body. *)
convertToCSSData(data) == {<<key, ToText(data[key])>> : key \in DOMAIN data}

(* [data-theme="${themeName}"] {${convertToCSSData(mergedData)}} *)
CompileRule(themeName, mergedData) ==
  [selector |-> themeName, decls |-> convertToCSSData(mergedData)]

(***************************************************************************)
(* CSSStyleSheet: cssRules is a sequence, rule indexes are 0-based.        *)
(***************************************************************************)
insertRule(cssRules, rule, index) ==
  [j \in 1..(Len(cssRules) + 1) |->
     IF j <= index THEN cssRules[j]
     ELSE IF j = index + 1 THEN rule
     ELSE cssRules[j - 1]]

deleteRule(cssRules, index) ==
  [j \in 1..(Len(cssRules) - 1) |-> IF j <= index THEN cssRules[j] ELSE cssRules[j + 1]]

(***************************************************************************)
(* Map<string, TMThemeConfig>: entries in insertion order.                 *)
(***************************************************************************)
MapHas(map, name) == \E i \in 1..Len(map) : map[i].name = name

MapPos(map, name) == CHOOSE i \in 1..Len(map) : map[i].name = name

MapGet(map, name) == map[MapPos(map, name)]

MapDelete(map, name) ==
  IF MapHas(map, name)
    THEN [j \in 1..(Len(map) - 1) |-> IF j < MapPos(map, name) THEN map[j] ELSE map[j + 1]]
    ELSE map

MapSet(map, name, index, data) ==
  IF MapHas(map, name)
    THEN [map EXCEPT ![MapPos(map, name)] = [name |-> name, index |-> index, data |-> data]]
    ELSE Append(map, [name |-> name, index |-> index, data |-> data])

MapKeys(map) == {map[i].name : i \in 1..Len(map)}

(***************************************************************************)
(* State                                                                   *)
(***************************************************************************)
VARIABLES
  themeMap,                  \* this.themeMap: entries [name, index, data]
  cssRules,                  \* this.styleSheet.cssRules
  dataTheme,                 \* the container's data-theme attribute, NoTheme when absent
  baseVariables,             \* this.options.baseVariables
  disableFollowSystemTheme,  \* this.options.disableFollowSystemTheme
  systemTheme,               \* this.systemTheme
  eventListeners,            \* this.eventListeners: per event, the listeners in insertion order
  isDestroyed,               \* this.isDestroyed
  styleAttached,             \* the style element is a child of the container
  subscribed,                \* boundSystemThemeHandler is a 'change' listener of the media query
  mediaMatches,              \* window.matchMedia('(prefers-color-scheme: light)').matches
  lastOp,                    \* the last call (other than a read of a live manager) and its arguments
  prevRegister,              \* when that call is a register made right after a register that
                             \* returned: the earlier call's arguments and the rule count it left
  emitted,                   \* the events that call emitted, in order
  observed,                  \* per emitted event, what a listener of it finds when it
                             \* reads the manager from inside its callback
  thrown                     \* the error that call raised to its caller, NoError if it returned

(* The library's other facilities, each the subject of a specification of
   its own; a variable is Unused in the specifications of the others. *)
VARIABLES
  task,                      \* a createWorkerTask(fn, options) closure
  pool,                      \* a createWorkerPool(fn, poolSize, options) closure
  chain,                     \* a TaskChain and its run
  logger,                    \* the Logger class: LogLevel, staticConfig, the console
  compared                   \* a compareVersion call: its arguments and its outcome

managerVars == <<themeMap, cssRules, dataTheme, baseVariables, disableFollowSystemTheme,
                 systemTheme, eventListeners, isDestroyed, styleAttached, subscribed,
                 mediaMatches, lastOp, prevRegister, emitted, observed, thrown>>

utilityVars == <<task, pool, chain, logger, compared>>

vars == <<managerVars, utilityVars>>

Unused == "unused"

(* The facilities a specification starts with. *)
Start(t, p, c, l, v) ==
  /\ task = t
  /\ pool = p
  /\ chain = c
  /\ logger = l
  /\ compared = v

(* A step of one of them; the ThemeManager is not involved. *)
Step(t, p, c, l, v) ==
  /\ task' = t
  /\ pool' = p
  /\ chain' = c
  /\ logger' = l
  /\ compared' = v
  /\ UNCHANGED managerVars

Events == {"themeChange", "systemThemeChange", "themeRegister", "themeUnregister"}

(* Listener functions; g throws whenever it is invoked. *)
Listeners == {"f", "g"}
ListenerThrows(listener) == listener = "g"

DestroyedError == "ThemeManager has been destroyed"
InvalidThemeNameError == "Invalid theme name"
InvalidThemeDataError == "Invalid theme data for theme"
UnknownThemeError == "Theme is not registered"
SourceNotFoundError == "Source theme not found"
FailedToRegisterError == "Failed to register theme"

(***************************************************************************)
(* The manager as a value, so that a method can call other methods: the    *)
(* fields a call can change, plus the events it emitted and the error it   *)
(* is propagating.                                                         *)
(***************************************************************************)
Manager ==
  [themeMap |-> themeMap, cssRules |-> cssRules, dataTheme |-> dataTheme,
   baseVariables |-> baseVariables, systemTheme |-> systemTheme,
   isDestroyed |-> isDestroyed, emitted |-> <<>>, observed |-> <<>>, thrown |-> NoError]

Throw(m, error) == [m EXCEPT !.thrown = error]

(* What the getters return at this point of a call: currentSystemTheme,
   getCurrentTheme(), getThemeNames() and getThemeData(). *)
Observe(m) ==
  [systemTheme |-> m.systemTheme,
   currentTheme |-> m.dataTheme,
   themeNames |-> {m.themeMap[i].name : i \in 1..Len(m.themeMap)},
   themeData |->
     IF m.dataTheme = NoTheme \/ m.dataTheme = ""
        \/ ~(\E i \in 1..Len(m.themeMap) : m.themeMap[i].name = m.dataTheme)
       THEN NullData
       ELSE LET i == CHOOSE j \in 1..Len(m.themeMap) : m.themeMap[j].name = m.dataTheme
            IN Merge(m.baseVariables, m.themeMap[i].data)]

(* emit: the event and its arguments go to every listener of the event (see
   Deliver), which runs while the call is at this point. *)
emit(m, event, name, data) ==
  [m EXCEPT !.emitted = Append(@, [event |-> event, name |-> name, data |-> data]),
            !.observed = Append(@, Observe(m))]

(* checkDestroyed that never throws. *)
checkDestroyed_Never(m) == NoError

checkDestroyed(m) == IF m.isDestroyed THEN DestroyedError ELSE NoError

getCurrentTheme(m) == m.dataTheme

(* getThemeData without the merge under baseVariables (what the earlier
   stage's register stored is what it returned). *)
getThemeData_StoredOnly(m, themeName) ==
  LET name == IF themeName = "" \/ themeName = NoTheme THEN getCurrentTheme(m) ELSE themeName
  IN IF name = NoTheme \/ name = "" \/ ~MapHas(m.themeMap, name)
       THEN NullData
       ELSE MapGet(m.themeMap, name).data

getThemeData(m, themeName) ==
  LET name == IF themeName = "" \/ themeName = NoTheme THEN getCurrentTheme(m) ELSE themeName
  IN IF name = NoTheme \/ name = "" \/ ~MapHas(m.themeMap, name)
       THEN NullData
       ELSE Merge(m.baseVariables, MapGet(m.themeMap, name).data)

RECURSIVE RebuildFrom(_, _, _)
RebuildFrom(themes, base, rules) ==
  IF themes = <<>> THEN <<>>
  ELSE <<[name |-> Head(themes).name, index |-> Len(rules), data |-> Head(themes).data]>>
         \o RebuildFrom(Tail(themes), base,
              insertRule(rules, CompileRule(Head(themes).name, Merge(base, Head(themes).data)),
                         Len(rules)))

RECURSIVE RulesFrom(_, _, _)
RulesFrom(themes, base, rules) ==
  IF themes = <<>> THEN rules
  ELSE RulesFrom(Tail(themes), base,
         insertRule(rules, CompileRule(Head(themes).name, Merge(base, Head(themes).data)),
                    Len(rules)))

(* rebuildRuleIndexes: delete every rule, then insert one rule per theme in
   map order and store the index insertRule returned. *)
rebuildRuleIndexes(m) ==
  [m EXCEPT !.cssRules = RulesFrom(m.themeMap, m.baseVariables, <<>>),
            !.themeMap = RebuildFrom(m.themeMap, m.baseVariables, <<>>)]

(* toggle that emits the notification and leaves the attribute as it is. *)
toggle_NoAttribute(m, themeName) ==
  IF checkDestroyed(m) # NoError THEN Throw(m, checkDestroyed(m))
  ELSE IF themeName # NoTheme /\ themeName # ""
    THEN IF ~isValidThemeName(themeName) THEN Throw(m, InvalidThemeNameError)
         ELSE IF ~MapHas(m.themeMap, themeName) THEN Throw(m, UnknownThemeError)
         ELSE emit(m, "themeChange", themeName,
                   Merge(m.baseVariables, MapGet(m.themeMap, themeName).data))
    ELSE emit(m, "themeChange", NoTheme, NullData)

(* toggle that sets the attribute before it looks the name up. *)
toggle_ChecksLate(m, themeName) ==
  IF checkDestroyed(m) # NoError THEN Throw(m, checkDestroyed(m))
  ELSE IF themeName # NoTheme /\ themeName # ""
    THEN IF ~isValidThemeName(themeName) THEN Throw(m, InvalidThemeNameError)
         ELSE IF ~MapHas(m.themeMap, themeName)
           THEN Throw([m EXCEPT !.dataTheme = themeName], UnknownThemeError)
         ELSE emit([m EXCEPT !.dataTheme = themeName], "themeChange", themeName,
                   Merge(m.baseVariables, MapGet(m.themeMap, themeName).data))
    ELSE emit([m EXCEPT !.dataTheme = NoTheme], "themeChange", NoTheme, NullData)

toggle(m, themeName) ==
  IF checkDestroyed(m) # NoError THEN Throw(m, checkDestroyed(m))
  ELSE IF themeName # NoTheme /\ themeName # ""
    THEN IF ~isValidThemeName(themeName) THEN Throw(m, InvalidThemeNameError)
         ELSE IF ~MapHas(m.themeMap, themeName) THEN Throw(m, UnknownThemeError)
         ELSE emit([m EXCEPT !.dataTheme = themeName], "themeChange", themeName,
                   Merge(m.baseVariables, MapGet(m.themeMap, themeName).data))
    ELSE emit([m EXCEPT !.dataTheme = NoTheme], "themeChange", NoTheme, NullData)

(* unregister without the rebuild of the rule indexes. *)
unregister_NoRebuild(m, themeName) ==
  IF checkDestroyed(m) # NoError THEN Throw(m, checkDestroyed(m))
  ELSE IF ~MapHas(m.themeMap, themeName) THEN m
  ELSE LET config == MapGet(m.themeMap, themeName)
       IN IF config.index \notin 0..(Len(m.cssRules) - 1) THEN m
          ELSE LET m1 == [m EXCEPT !.cssRules = deleteRule(@, config.index),
                                   !.themeMap = MapDelete(@, themeName)]
                   m3 == emit(m1, "themeUnregister", themeName, NullData)
               IN IF getCurrentTheme(m3) = themeName
                    THEN [toggle(m3, NoTheme) EXCEPT !.thrown = NoError]
                    ELSE m3

(* unregister that leaves the attribute when the removed theme is active. *)
unregister_KeepsActive(m, themeName) ==
  IF checkDestroyed(m) # NoError THEN Throw(m, checkDestroyed(m))
  ELSE IF ~MapHas(m.themeMap, themeName) THEN m
  ELSE LET config == MapGet(m.themeMap, themeName)
       IN IF config.index \notin 0..(Len(m.cssRules) - 1) THEN m
          ELSE LET m1 == [m EXCEPT !.cssRules = deleteRule(@, config.index),
                                   !.themeMap = MapDelete(@, themeName)]
                   m2 == rebuildRuleIndexes(m1)
               IN emit(m2, "themeUnregister", themeName, NullData)

(* unregister that treats a name that is not registered as an error. *)
unregister_ThrowsUnknown(m, themeName) ==
  IF checkDestroyed(m) # NoError THEN Throw(m, checkDestroyed(m))
  ELSE IF ~MapHas(m.themeMap, themeName) THEN Throw(m, UnknownThemeError)
  ELSE LET config == MapGet(m.themeMap, themeName)
       IN IF config.index \notin 0..(Len(m.cssRules) - 1) THEN m
          ELSE LET m1 == [m EXCEPT !.cssRules = deleteRule(@, config.index),
                                   !.themeMap = MapDelete(@, themeName)]
                   m2 == rebuildRuleIndexes(m1)
                   m3 == emit(m2, "themeUnregister", themeName, NullData)
               IN IF getCurrentTheme(m3) = themeName
                    THEN [toggle(m3, NoTheme) EXCEPT !.thrown = NoError]
                    ELSE m3

(* unregister: an error inside the try block is caught and logged. *)
unregister(m, themeName) ==
  IF checkDestroyed(m) # NoError THEN Throw(m, checkDestroyed(m))
  ELSE IF ~MapHas(m.themeMap, themeName) THEN m
  ELSE LET config == MapGet(m.themeMap, themeName)
       IN IF config.index \notin 0..(Len(m.cssRules) - 1) THEN m
          ELSE LET m1 == [m EXCEPT !.cssRules = deleteRule(@, config.index),
                                   !.themeMap = MapDelete(@, themeName)]
                   m2 == rebuildRuleIndexes(m1)
                   m3 == emit(m2, "themeUnregister", themeName, NullData)
               IN IF getCurrentTheme(m3) = themeName
                    THEN [toggle(m3, NoTheme) EXCEPT !.thrown = NoError]
                    ELSE m3

RECURSIVE register(_, _, _), applyDefaultTheme(_)

(* applyDefaultTheme that does not look at the active theme. *)
applyDefaultTheme_IgnoresActive(m) ==
  IF disableFollowSystemTheme THEN m
  ELSE IF checkDestroyed(m) # NoError THEN Throw(m, checkDestroyed(m))
  ELSE LET systemThemeData == getThemeData(m, m.systemTheme)
       IN IF systemThemeData # NullData
            THEN LET m1 == unregister(m, "default")
                     m2 == IF m1.thrown # NoError THEN m1
                           ELSE register(m1, "default", systemThemeData)
                 IN IF m2.thrown # NoError THEN m2 ELSE toggle(m2, "default")
            ELSE m

applyDefaultTheme(m) ==
  IF disableFollowSystemTheme THEN m
  ELSE IF checkDestroyed(m) # NoError THEN Throw(m, checkDestroyed(m))
  ELSE LET currentTheme == getCurrentTheme(m)
       IN IF currentTheme = NoTheme \/ currentTheme = "" \/ currentTheme = "default"
            THEN LET systemThemeData == getThemeData(m, m.systemTheme)
                 IN IF systemThemeData # NullData
                      THEN LET m1 == unregister(m, "default")
                               m2 == IF m1.thrown # NoError THEN m1
                                     ELSE register(m1, "default", systemThemeData)
                           IN IF m2.thrown # NoError THEN m2 ELSE toggle(m2, "default")
                      ELSE m
            ELSE m

(* register that does not unregister an existing theme of the name first. *)
register_NoReplace(m, themeName, themeData) ==
  IF checkDestroyed(m) # NoError THEN Throw(m, checkDestroyed(m))
  ELSE IF ~isValidThemeName(themeName) THEN Throw(m, InvalidThemeNameError)
  ELSE IF ~isValidThemeData(themeData) THEN Throw(m, InvalidThemeDataError)
  ELSE LET mergedData == Merge(m.baseVariables, themeData)
           index == Len(m.cssRules)
           m2 == [m EXCEPT !.cssRules = insertRule(@, CompileRule(themeName, mergedData), index),
                           !.themeMap = MapSet(@, themeName, index, themeData)]
           m3 == emit(m2, "themeRegister", themeName, themeData)
           m4 == IF getCurrentTheme(m3) = themeName THEN applyDefaultTheme(m3) ELSE m3
       IN IF m4.thrown # NoError THEN Throw(m4, FailedToRegisterError)
          ELSE m4

(* register that removes the existing theme of the name before it validates
   the data. *)
register_ValidatesLate(m, themeName, themeData) ==
  IF checkDestroyed(m) # NoError THEN Throw(m, checkDestroyed(m))
  ELSE IF ~isValidThemeName(themeName) THEN Throw(m, InvalidThemeNameError)
  ELSE LET m1 == IF MapHas(m.themeMap, themeName) THEN unregister(m, themeName) ELSE m
           mergedData == Merge(m1.baseVariables, themeData)
           index == Len(m1.cssRules)
           m2 == [m1 EXCEPT !.cssRules = insertRule(@, CompileRule(themeName, mergedData), index),
                            !.themeMap = MapSet(@, themeName, index, themeData)]
           m3 == emit(m2, "themeRegister", themeName, themeData)
           m4 == IF getCurrentTheme(m3) = themeName THEN applyDefaultTheme(m3) ELSE m3
       IN IF m1.thrown # NoError THEN m1
          ELSE IF ~isValidThemeData(themeData) THEN Throw(m1, InvalidThemeDataError)
          ELSE IF m4.thrown # NoError THEN Throw(m4, FailedToRegisterError)
          ELSE m4

register(m, themeName, themeData) ==
  IF checkDestroyed(m) # NoError THEN Throw(m, checkDestroyed(m))
  ELSE IF ~isValidThemeName(themeName) THEN Throw(m, InvalidThemeNameError)
  ELSE IF ~isValidThemeData(themeData) THEN Throw(m, InvalidThemeDataError)
  ELSE LET m1 == IF MapHas(m.themeMap, themeName) THEN unregister(m, themeName) ELSE m
           mergedData == Merge(m1.baseVariables, themeData)
           index == Len(m1.cssRules)
           m2 == [m1 EXCEPT !.cssRules = insertRule(@, CompileRule(themeName, mergedData), index),
                            !.themeMap = MapSet(@, themeName, index, themeData)]
           m3 == emit(m2, "themeRegister", themeName, themeData)
           m4 == IF getCurrentTheme(m3) = themeName THEN applyDefaultTheme(m3) ELSE m3
       IN IF m1.thrown # NoError THEN m1
          ELSE IF m4.thrown # NoError THEN Throw(m4, FailedToRegisterError)
          ELSE m4

RECURSIVE registerBatch(_, _)
registerBatch(m, themes) ==
  IF checkDestroyed(m) # NoError THEN Throw(m, checkDestroyed(m))
  ELSE IF themes = <<>> THEN m
  ELSE LET m1 == register(m, Head(themes)[1], Head(themes)[2])
       IN IF m1.thrown # NoError THEN m1 ELSE registerBatch(m1, Tail(themes))

(* cloneTheme that lets the source's data win over the overrides. *)
cloneTheme_OverridesUnder(m, sourceName, targetName, overrides) ==
  IF checkDestroyed(m) # NoError THEN Throw(m, checkDestroyed(m))
  ELSE IF ~MapHas(m.themeMap, sourceName) THEN Throw(m, SourceNotFoundError)
  ELSE register(m, targetName, Merge(overrides, MapGet(m.themeMap, sourceName).data))

cloneTheme(m, sourceName, targetName, overrides) ==
  IF checkDestroyed(m) # NoError THEN Throw(m, checkDestroyed(m))
  ELSE IF ~MapHas(m.themeMap, sourceName) THEN Throw(m, SourceNotFoundError)
  ELSE register(m, targetName, Merge(MapGet(m.themeMap, sourceName).data, overrides))

(* updateBaseVariables that stores the new base variables and leaves the
   style sheet as it is. *)
updateBaseVariables_NoRebuild(m, patch) ==
  IF checkDestroyed(m) # NoError THEN Throw(m, checkDestroyed(m))
  ELSE [m EXCEPT !.baseVariables = Merge(@, patch)]

updateBaseVariables(m, patch) ==
  IF checkDestroyed(m) # NoError THEN Throw(m, checkDestroyed(m))
  ELSE rebuildRuleIndexes([m EXCEPT !.baseVariables = Merge(@, patch)])

(* The change handler without the re-application of the default theme. *)
handleSystemThemeChange_NoApply(m, matches) ==
  LET newSystemTheme == IF matches THEN "light" ELSE "dark"
  IN emit([m EXCEPT !.systemTheme = newSystemTheme], "systemThemeChange", newSystemTheme,
          NullData)

(* The change handler that emits systemThemeChange before it re-applies the
   default theme. *)
handleSystemThemeChange_EmitsFirst(m, matches) ==
  LET newSystemTheme == IF matches THEN "light" ELSE "dark"
      m1 == emit([m EXCEPT !.systemTheme = newSystemTheme], "systemThemeChange",
                 newSystemTheme, NullData)
  IN applyDefaultTheme(m1)

handleSystemThemeChange(m, matches) ==
  LET newSystemTheme == IF matches THEN "light" ELSE "dark"
      m1 == applyDefaultTheme([m EXCEPT !.systemTheme = newSystemTheme])
  IN IF m1.thrown # NoError THEN m1
     ELSE emit(m1, "systemThemeChange", newSystemTheme, NullData)

(***************************************************************************)
(* Inputs                                                                  *)
(***************************************************************************)
ThemeNames == {"light", "dark", "default"}

RegisterInputs ==
  { <<"light", ("--a" :> Str("x"))>>, <<"light", ("--b" :> Num("1"))>>,
    <<"dark", ("--b" :> Num("1"))>>, <<"default", ("--a" :> Str("x"))>>,
    <<" ", EmptyData>>, <<"a<b", EmptyData>>, <<"light", ("--a" :> Bool("true"))>> }

BaseInputs == { EmptyData }
PatchInputs == { ("--a" :> Str("1")) }
ListenerInputs == { <<"themeChange", "f">> }
CloneInputs ==
  { <<"light", "dark", ("--a" :> Num("1"))>>, <<"light", "light", EmptyData>>,
    <<"light", "a<b", EmptyData>> }

BatchInputs ==
  { <<<<"light", ("--a" :> Str("x"))>>, <<"dark", ("--b" :> Num("1"))>>>>,
    <<<<"dark", ("--b" :> Num("1"))>>, <<"a<b", EmptyData>>, <<"light", ("--a" :> Str("x"))>>>> }

(***************************************************************************)
(* Calls                                                                   *)
(***************************************************************************)
Op(op, name, name2, data) == [op |-> op, name |-> name, name2 |-> name2, data |-> data]

NoPrev == [name |-> NoTheme, data |-> NullData, rules |-> 0]

Record(call) ==
  /\ lastOp' = call
  /\ prevRegister' =
       IF call.op = "register" /\ lastOp.op = "register" /\ thrown = NoError
         THEN [name |-> lastOp.name, data |-> lastOp.data, rules |-> Len(cssRules)]
         ELSE NoPrev
  /\ UNCHANGED utilityVars

(* The manager's fields after a call that ran as m.  The registry is kept
   within MaxThemes entries. *)
Commit(m) ==
  /\ Len(m.themeMap) <= MaxThemes
  /\ themeMap' = m.themeMap
  /\ cssRules' = m.cssRules
  /\ dataTheme' = m.dataTheme
  /\ baseVariables' = m.baseVariables
  /\ systemTheme' = m.systemTheme
  /\ emitted' = m.emitted
  /\ observed' = m.observed
  /\ thrown' = m.thrown

(* The state the constructor leaves: the container carries no data-theme
   attribute when the manager is built, the style sheet and the registry are
   empty (applyDefaultTheme finds no theme to apply). *)
Init ==
  /\ themeMap = <<>>
  /\ cssRules = <<>>
  /\ dataTheme = NoTheme
  /\ baseVariables \in BaseInputs
  /\ disableFollowSystemTheme \in BOOLEAN
  /\ mediaMatches \in BOOLEAN
  /\ systemTheme = IF mediaMatches THEN "light" ELSE "dark"
  /\ eventListeners = [e \in Events |-> <<>>]
  /\ isDestroyed = FALSE
  /\ styleAttached = TRUE
  /\ subscribed = TRUE
  /\ emitted = <<>>
  /\ observed = <<>>
  /\ thrown = NoError
  /\ lastOp = Op("constructor", NoTheme, NoTheme, NullData)
  /\ prevRegister = NoPrev
  /\ Start(Unused, Unused, Unused, Unused, Unused)

Register(themeName, themeData) ==
  /\ Commit(register(Manager, themeName, themeData))
  /\ Record(Op("register", themeName, NoTheme, themeData))
  /\ UNCHANGED <<disableFollowSystemTheme, eventListeners, isDestroyed, styleAttached,
                 subscribed, mediaMatches>>

RegisterBatch(themes) ==
  /\ Commit(registerBatch(Manager, themes))
  /\ Record(Op("registerBatch", Head(themes)[1], NoTheme, Head(themes)[2]))
  /\ UNCHANGED <<disableFollowSystemTheme, eventListeners, isDestroyed, styleAttached,
                 subscribed, mediaMatches>>

Unregister(themeName) ==
  /\ Commit(unregister(Manager, themeName))
  /\ Record(Op("unregister", themeName, NoTheme, NullData))
  /\ UNCHANGED <<disableFollowSystemTheme, eventListeners, isDestroyed, styleAttached,
                 subscribed, mediaMatches>>

Toggle(themeName) ==
  /\ Commit(toggle(Manager, themeName))
  /\ Record(Op("toggle", themeName, NoTheme, NullData))
  /\ UNCHANGED <<disableFollowSystemTheme, eventListeners, isDestroyed, styleAttached,
                 subscribed, mediaMatches>>

CloneTheme(sourceName, targetName, overrides) ==
  /\ Commit(cloneTheme(Manager, sourceName, targetName, overrides))
  /\ Record(Op("cloneTheme", sourceName, targetName, overrides))
  /\ UNCHANGED <<disableFollowSystemTheme, eventListeners, isDestroyed, styleAttached,
                 subscribed, mediaMatches>>

UpdateBaseVariables(patch) ==
  /\ Commit(updateBaseVariables(Manager, patch))
  /\ Record(Op("updateBaseVariables", NoTheme, NoTheme, patch))
  /\ UNCHANGED <<disableFollowSystemTheme, eventListeners, isDestroyed, styleAttached,
                 subscribed, mediaMatches>>

(* The OS preference flips; the media query calls the handler if it is
   still subscribed. *)
SystemThemeChange ==
  /\ mediaMatches' = ~mediaMatches
  /\ IF subscribed
       THEN Commit(handleSystemThemeChange(Manager, ~mediaMatches))
       ELSE /\ UNCHANGED <<themeMap, cssRules, dataTheme, baseVariables, systemTheme>>
            /\ emitted' = <<>>
            /\ observed' = <<>>
            /\ thrown' = NoError
  /\ Record(Op("systemThemeChange", IF ~mediaMatches THEN "light" ELSE "dark", NoTheme, NullData))
  /\ UNCHANGED <<disableFollowSystemTheme, eventListeners, isDestroyed, styleAttached, subscribed>>

(* destroy that leaves the event listeners registered. *)
Destroy_KeepsListeners ==
  /\ IF isDestroyed
       THEN UNCHANGED <<themeMap, styleAttached, dataTheme, isDestroyed, subscribed>>
       ELSE /\ subscribed' = FALSE
            /\ themeMap' = <<>>
            /\ styleAttached' = FALSE
            /\ dataTheme' = NoTheme
            /\ isDestroyed' = TRUE
  /\ emitted' = <<>>
  /\ observed' = <<>>
  /\ thrown' = NoError
  /\ Record(Op("destroy", IF isDestroyed THEN "destroyed" ELSE NoTheme, NoTheme, NullData))
  /\ UNCHANGED <<cssRules, baseVariables, disableFollowSystemTheme, systemTheme, mediaMatches,
                 eventListeners>>

(* destroy that checks the destroyed flag the way the other calls do. *)
Destroy_ChecksDestroyed ==
  /\ IF isDestroyed
       THEN UNCHANGED <<themeMap, styleAttached, dataTheme, eventListeners, isDestroyed, subscribed>>
       ELSE /\ subscribed' = FALSE
            /\ themeMap' = <<>>
            /\ styleAttached' = FALSE
            /\ dataTheme' = NoTheme
            /\ eventListeners' = [e \in Events |-> <<>>]
            /\ isDestroyed' = TRUE
  /\ emitted' = <<>>
  /\ observed' = <<>>
  /\ thrown' = checkDestroyed(Manager)
  /\ Record(Op("destroy", IF isDestroyed THEN "destroyed" ELSE NoTheme, NoTheme, NullData))
  /\ UNCHANGED <<cssRules, baseVariables, disableFollowSystemTheme, systemTheme, mediaMatches>>

(* lastOp.name records that the manager was already destroyed when destroy
   was called (the call returned at once). *)
Destroy ==
  /\ IF isDestroyed
       THEN UNCHANGED <<themeMap, styleAttached, dataTheme, eventListeners, isDestroyed, subscribed>>
       ELSE /\ subscribed' = FALSE
            /\ themeMap' = <<>>
            /\ styleAttached' = FALSE
            /\ dataTheme' = NoTheme
            /\ eventListeners' = [e \in Events |-> <<>>]
            /\ isDestroyed' = TRUE
  /\ emitted' = <<>>
  /\ observed' = <<>>
  /\ thrown' = NoError
  /\ Record(Op("destroy", IF isDestroyed THEN "destroyed" ELSE NoTheme, NoTheme, NullData))
  /\ UNCHANGED <<cssRules, baseVariables, disableFollowSystemTheme, systemTheme, mediaMatches>>

(***************************************************************************)
(* Listener registry                                                       *)
(***************************************************************************)
(* The invocations of listeners the last call made, in order: each emitted
   event goes to the listeners of that event in insertion order, and what a
   listener throws is caught and logged. *)
RECURSIVE Deliver_StopsAtThrow(_, _)
(* The forEach of emit without the try/catch around the listener call: the
   first listener that throws ends the iteration. *)
Deliver_StopsAtThrow(listeners, e) ==
  IF listeners = <<>> THEN <<>>
  ELSE <<[event |-> e.event, listener |-> Head(listeners), name |-> e.name, data |-> e.data,
          threw |-> ListenerThrows(Head(listeners))]>>
         \o (IF ListenerThrows(Head(listeners)) THEN <<>>
             ELSE Deliver_StopsAtThrow(Tail(listeners), e))

RECURSIVE Deliver(_, _)
(* threw: the listener threw, and emit caught and logged what it threw. *)
Deliver(listeners, e) ==
  IF listeners = <<>> THEN <<>>
  ELSE <<[event |-> e.event, listener |-> Head(listeners), name |-> e.name, data |-> e.data,
          threw |-> ListenerThrows(Head(listeners))]>>
         \o Deliver(Tail(listeners), e)

RECURSIVE DeliverAll(_, _)
DeliverAll(registry, events) ==
  IF events = <<>> THEN <<>>
  ELSE Deliver(registry[Head(events).event], Head(events)) \o DeliverAll(registry, Tail(events))

SetHas(listeners, listener) == \E i \in 1..Len(listeners) : listeners[i] = listener

(* Set.add that appends the listener whether or not it is a member. *)
SetAdd_Always(listeners, listener) == Append(listeners, listener)

SetAdd(listeners, listener) ==
  IF SetHas(listeners, listener) THEN listeners ELSE Append(listeners, listener)

SetDelete(listeners, listener) == SelectSeq(listeners, LAMBDA l : l # listener)

RECURSIVE SumSizes(_, _)
SumSizes(registry, events) ==
  IF events = {} THEN 0
  ELSE LET e == CHOOSE x \in events : TRUE
       IN Len(registry[e]) + SumSizes(registry, events \ {e})

ListenerCount(registry) == SumSizes(registry, Events)

CallResult(error) ==
  /\ emitted' = <<>>
  /\ observed' = <<>>
  /\ thrown' = error

(* What lastOp.data is for an on() whose listener was already registered for
   the event. *)
AlreadyRegistered == [k \in {"<registered>"} |-> <<"boolean", "true">>]

(* The registry is kept within MaxListeners listeners. *)
On(event, listener) ==
  /\ eventListeners' =
       IF isDestroyed THEN eventListeners
       ELSE [eventListeners EXCEPT ![event] = SetAdd(@, listener)]
  /\ ListenerCount(eventListeners') <= MaxListeners
  /\ CallResult(checkDestroyed(Manager))
  /\ Record(Op("on", event, listener,
               IF SetHas(eventListeners[event], listener) THEN AlreadyRegistered ELSE NullData))
  /\ UNCHANGED <<themeMap, cssRules, dataTheme, baseVariables, disableFollowSystemTheme,
                 systemTheme, isDestroyed, styleAttached, subscribed, mediaMatches>>

Off(event, listener) ==
  /\ eventListeners' =
       IF isDestroyed THEN eventListeners
       ELSE [eventListeners EXCEPT ![event] = SetDelete(@, listener)]
  /\ CallResult(checkDestroyed(Manager))
  /\ Record(Op("off", event, listener, NullData))
  /\ UNCHANGED <<themeMap, cssRules, dataTheme, baseVariables, disableFollowSystemTheme,
                 systemTheme, isDestroyed, styleAttached, subscribed, mediaMatches>>

(* event = NoTheme stands for the call without an argument. *)
ClearListeners(event) ==
  /\ eventListeners' =
       IF isDestroyed THEN eventListeners
       ELSE IF event # NoTheme THEN [eventListeners EXCEPT ![event] = <<>>]
       ELSE [e \in Events |-> <<>>]
  /\ CallResult(checkDestroyed(Manager))
  /\ Record(Op("clearListeners", event, NoTheme, NullData))
  /\ UNCHANGED <<themeMap, cssRules, dataTheme, baseVariables, disableFollowSystemTheme,
                 systemTheme, isDestroyed, styleAttached, subscribed, mediaMatches>>

(***************************************************************************)
(* Read-only calls                                                         *)
(***************************************************************************)
ManagerFields ==
  <<themeMap, cssRules, dataTheme, baseVariables, disableFollowSystemTheme, systemTheme,
    eventListeners, isDestroyed, styleAttached, subscribed, mediaMatches>>

getAllThemes(m) ==
  [i \in 1..Len(m.themeMap) |->
     [name |-> m.themeMap[i].name,
      data |-> Merge(m.baseVariables, m.themeMap[i].data),
      isActive |-> m.themeMap[i].name = getCurrentTheme(m)]]

getThemeNames(m) == [i \in 1..Len(m.themeMap) |-> m.themeMap[i].name]

hasTheme(m, themeName) == MapHas(m.themeMap, themeName)

getStatus(m) ==
  [isDestroyed |-> m.isDestroyed,
   registeredThemes |-> Len(m.themeMap),
   currentTheme |-> IF m.isDestroyed THEN NoTheme ELSE getCurrentTheme(m),
   systemTheme |-> m.systemTheme,
   followSystemTheme |-> ~disableFollowSystemTheme,
   eventListeners |-> ListenerCount(eventListeners)]

(* A read of a live manager leaves every variable as it is: what it returns
   is the value of the operator of its name.  A read of a destroyed manager
   is recorded with its outcome. *)
Read(op, name, error) ==
  IF ~isDestroyed
    THEN UNCHANGED vars
    ELSE /\ CallResult(error)
         /\ Record(Op(op, name, NoTheme, NullData))
         /\ UNCHANGED ManagerFields

GetCurrentTheme == Read("getCurrentTheme", NoTheme, checkDestroyed(Manager))

GetThemeData(themeName) == Read("getThemeData", themeName, checkDestroyed(Manager))

GetAllThemes == Read("getAllThemes", NoTheme, checkDestroyed(Manager))

GetThemeNames == Read("getThemeNames", NoTheme, checkDestroyed(Manager))

HasTheme(themeName) == Read("hasTheme", themeName, checkDestroyed(Manager))

GetStatus == Read("getStatus", NoTheme, NoError)

(***************************************************************************)
(* Specification: the calls that change the registry, the style sheet and  *)
(* the active theme, and destroy().  The calls on the listener registry    *)
(* and the reads are taken in SpecListeners and SpecDestroy, and the       *)
(* second data of 'light' in SpecFollow.                                   *)
(***************************************************************************)
Next ==
  \/ \E r \in RegisterInputs \ {<<"light", ("--b" :> Num("1"))>>} : Register(r[1], r[2])
  \/ \E b \in BatchInputs : RegisterBatch(b)
  \/ \E n \in ThemeNames : Unregister(n)
  \/ \E n \in ThemeNames \cup {"a<b", "", NoTheme} : Toggle(n)
  \/ \E c \in CloneInputs : CloneTheme(c[1], c[2], c[3])
  \/ \E p \in PatchInputs : UpdateBaseVariables(p)
  \/ SystemThemeChange
  \/ Destroy

Spec == Init /\ [][Next]_vars

(***************************************************************************)
(* The manager with listeners on two events, one of which throws: the      *)
(* calls that emit, and the calls on the listener registry.                *)
(***************************************************************************)
ListenerSpecRegisterInputs ==
  { <<"light", ("--a" :> Str("x"))>>, <<"dark", ("--b" :> Num("1"))>> }

ListenerSpecInputs ==
  { <<"themeChange", "f">>, <<"themeChange", "g">>,
    <<"themeRegister", "f">>, <<"themeRegister", "g">>, <<"themeUnregister", "f">> }

NextListeners ==
  \/ \E r \in ListenerSpecRegisterInputs : Register(r[1], r[2])
  \/ \E n \in {"light"} : Unregister(n)
  \/ \E n \in {"light", NoTheme} : Toggle(n)
  \/ SystemThemeChange
  \/ \E i \in ListenerSpecInputs : On(i[1], i[2])
  \/ \E i \in ListenerSpecInputs : Off(i[1], i[2])
  \/ \E e \in {"themeChange", NoTheme} : ClearListeners(e)

SpecListeners == Init /\ [][NextListeners]_vars

(***************************************************************************)
(* The manager around destroy(): every public operation, on one theme and  *)
(* one listener, before and after the manager is destroyed.                *)
(***************************************************************************)
NextDestroy ==
  \/ \E r \in {i \in RegisterInputs : i[1] = "light" /\ isValidThemeData(i[2])} :
       Register(r[1], r[2])
  \/ \E b \in {i \in BatchInputs : Len(i) = 2} : RegisterBatch(b)
  \/ \E n \in {"light"} : Unregister(n)
  \/ \E n \in {"light"} : Toggle(n)
  \/ \E c \in {i \in CloneInputs : isValidThemeName(i[2]) /\ i[1] # i[2]} :
       CloneTheme(c[1], c[2], c[3])
  \/ \E p \in PatchInputs : UpdateBaseVariables(p)
  \/ SystemThemeChange
  \/ Destroy
  \/ \E i \in ListenerInputs : On(i[1], i[2])
  \/ \E i \in ListenerInputs : Off(i[1], i[2])
  \/ \E e \in {"themeChange", NoTheme} : ClearListeners(e)
  \/ GetCurrentTheme
  \/ \E n \in {""} : GetThemeData(n)
  \/ GetAllThemes
  \/ GetThemeNames
  \/ \E n \in {"default"} : HasTheme(n)
  \/ GetStatus

SpecDestroy == Init /\ [][NextDestroy]_vars

(***************************************************************************)
(* The manager following the system theme, with a caller that leaves the   *)
(* name 'default' to the manager and does not call toggle.                 *)
(***************************************************************************)
InitFollow == Init /\ ~disableFollowSystemTheme

NextFollow ==
  \/ \E r \in {i \in RegisterInputs : i[1] # "default"} : Register(r[1], r[2])
  \/ \E n \in ThemeNames : Unregister(n)
  \/ \E c \in CloneInputs : CloneTheme(c[1], c[2], c[3])
  \/ \E p \in PatchInputs : UpdateBaseVariables(p)
  \/ SystemThemeChange

SpecFollow == InitFollow /\ [][NextFollow]_vars

(***************************************************************************)
(* The earlier stage of ThemeManager (the first version of                 *)
(* theme.manager.ts): no validation, no events, no destroyed flag, and the *)
(* registry stores the merged data.  CSSStyleSheet.deleteRule throws an    *)
(* IndexSizeError for an index that is not the index of a rule.            *)
(***************************************************************************)
IndexSizeError == "IndexSizeError"
UnregisteredThemeError == "This theme is unregister."

earlier_getCurrentTheme(m) == m.dataTheme

earlier_getThemeData(m, themeName) ==
  LET name == IF themeName = "" \/ themeName = NoTheme THEN earlier_getCurrentTheme(m)
              ELSE themeName
  IN IF name = NoTheme \/ name = "" \/ ~MapHas(m.themeMap, name)
       THEN NullData
       ELSE MapGet(m.themeMap, name).data

earlier_unregister(m, themeName) ==
  IF ~MapHas(m.themeMap, themeName) THEN m
  ELSE LET config == MapGet(m.themeMap, themeName)
       IN IF config.index \notin 0..(Len(m.cssRules) - 1) THEN Throw(m, IndexSizeError)
          ELSE [m EXCEPT !.cssRules = deleteRule(@, config.index),
                         !.themeMap = MapDelete(@, themeName)]

earlier_toggle(m, themeName) ==
  IF themeName # NoTheme /\ themeName # ""
    THEN IF ~MapHas(m.themeMap, themeName) THEN Throw(m, UnregisteredThemeError)
         ELSE [m EXCEPT !.dataTheme = themeName]
    ELSE [m EXCEPT !.dataTheme = NoTheme]

RECURSIVE earlier_register(_, _, _), earlier_applyDefaultTheme(_)

earlier_applyDefaultTheme(m) ==
  IF disableFollowSystemTheme THEN m
  ELSE LET currentTheme == earlier_getCurrentTheme(m)
       IN IF currentTheme = NoTheme \/ currentTheme = "" \/ currentTheme = "default"
            THEN LET data == earlier_getThemeData(m, m.systemTheme)
                 IN IF data # NullData
                      THEN LET m1 == earlier_unregister(m, "default")
                               m2 == IF m1.thrown # NoError THEN m1
                                     ELSE earlier_register(m1, "default", data)
                           IN IF m2.thrown # NoError THEN m2 ELSE earlier_toggle(m2, "default")
                      ELSE m
            ELSE m

earlier_register(m, themeName, themeData) ==
  LET m1 == IF MapHas(m.themeMap, themeName) THEN earlier_unregister(m, themeName) ELSE m
      data == Merge(m1.baseVariables, themeData)
      index == Len(m1.cssRules)
      m2 == [m1 EXCEPT !.cssRules = insertRule(@, CompileRule(themeName, data), index),
                       !.themeMap = MapSet(@, themeName, index, data)]
  IN IF m1.thrown # NoError THEN m1
     ELSE IF m2.systemTheme = themeName THEN earlier_applyDefaultTheme(m2)
     ELSE m2

EarlierRegisterInputs ==
  { <<"light", ("--a" :> Str("x"))>>, <<"light", ("--b" :> Num("1"))>>,
    <<"dark", ("--b" :> Num("1"))>>, <<"default", ("--a" :> Str("x"))>> }

EarlierRegister(themeName, themeData) ==
  /\ Commit(earlier_register(Manager, themeName, themeData))
  /\ Record(Op("register", themeName, NoTheme, themeData))
  /\ UNCHANGED <<disableFollowSystemTheme, eventListeners, isDestroyed, styleAttached,
                 subscribed, mediaMatches>>

EarlierUnregister(themeName) ==
  /\ Commit(earlier_unregister(Manager, themeName))
  /\ Record(Op("unregister", themeName, NoTheme, NullData))
  /\ UNCHANGED <<disableFollowSystemTheme, eventListeners, isDestroyed, styleAttached,
                 subscribed, mediaMatches>>

NextEarlier ==
  \/ \E r \in EarlierRegisterInputs : EarlierRegister(r[1], r[2])
  \/ \E n \in ThemeNames : EarlierUnregister(n)

SpecEarlier == Init /\ [][NextEarlier]_vars

(***************************************************************************)
(* Construction.  The environment decides what options.root resolves to    *)
(* and which of the DOM calls of the constructor throw: insertBefore on    *)
(* the container, window.matchMedia, and addEventListener on the media     *)
(* query.  The constructor has no try/catch: what a step throws ends it     *)
(* and reaches the caller, and what the earlier steps did stays done.      *)
(***************************************************************************)
NoBrowserError == "ThemeManager requires a browser environment"
ContainerNotFoundError == "Container element not found"
InvalidContainerError == "Invalid container element"
InsertBeforeError == "insertBefore threw"
MatchMediaError == "matchMedia threw"
AddEventListenerError == "addEventListener threw"

Roots == {"undefined", "selector", "selectorWithoutMatch", "element", "notAnElement"}

validateEnvironment(hasDom) == IF hasDom THEN NoError ELSE NoBrowserError

initializeContainer(root) ==
  IF root = "selectorWithoutMatch" THEN ContainerNotFoundError
  ELSE IF root = "notAnElement" THEN InvalidContainerError
  ELSE NoError

(* The style element is a child of the container once insertBefore returned. *)
createStyleElement(insertBeforeThrows) ==
  [styleAttached |-> ~insertBeforeThrows,
   thrown |-> IF insertBeforeThrows THEN InsertBeforeError ELSE NoError]

(* The handler is subscribed once addEventListener returned. *)
setupSystemThemeListener(addEventListenerThrows) ==
  [subscribed |-> ~addEventListenerThrows,
   thrown |-> IF addEventListenerThrows THEN AddEventListenerError ELSE NoError]

(* What the constructor leaves behind and what it throws. *)
constructor(hasDom, root, insertBeforeThrows, matchMediaThrows, addEventListenerThrows) ==
  IF validateEnvironment(hasDom) # NoError
    THEN [styleAttached |-> FALSE, subscribed |-> FALSE, thrown |-> validateEnvironment(hasDom)]
  ELSE IF initializeContainer(root) # NoError
    THEN [styleAttached |-> FALSE, subscribed |-> FALSE, thrown |-> initializeContainer(root)]
  ELSE IF createStyleElement(insertBeforeThrows).thrown # NoError
    THEN [styleAttached |-> createStyleElement(insertBeforeThrows).styleAttached,
          subscribed |-> FALSE,
          thrown |-> createStyleElement(insertBeforeThrows).thrown]
  ELSE IF matchMediaThrows
    THEN [styleAttached |-> createStyleElement(insertBeforeThrows).styleAttached,
          subscribed |-> FALSE,
          thrown |-> MatchMediaError]
  ELSE [styleAttached |-> createStyleElement(insertBeforeThrows).styleAttached,
        subscribed |-> setupSystemThemeListener(addEventListenerThrows).subscribed,
        thrown |-> setupSystemThemeListener(addEventListenerThrows).thrown]

(* Before new ThemeManager(options): a container without a data-theme
   attribute and without a style element, no subscription. *)
InitConstruct ==
  /\ themeMap = <<>>
  /\ cssRules = <<>>
  /\ dataTheme = NoTheme
  /\ baseVariables \in BaseInputs
  /\ disableFollowSystemTheme \in BOOLEAN
  /\ mediaMatches \in BOOLEAN
  /\ systemTheme = NoTheme
  /\ eventListeners = [e \in Events |-> <<>>]
  /\ isDestroyed = FALSE
  /\ styleAttached = FALSE
  /\ subscribed = FALSE
  /\ emitted = <<>>
  /\ observed = <<>>
  /\ thrown = NoError
  /\ lastOp = Op("new", NoTheme, NoTheme, NullData)
  /\ prevRegister = NoPrev
  /\ Start(Unused, Unused, Unused, Unused, Unused)

(* new ThemeManager(options).  lastOp.name is the root option.  With an
   empty registry applyDefaultTheme finds no theme to apply. *)
Construct(hasDom, root, insertBeforeThrows, matchMediaThrows, addEventListenerThrows) ==
  LET result == constructor(hasDom, root, insertBeforeThrows, matchMediaThrows,
                            addEventListenerThrows)
  IN /\ lastOp.op = "new"
     /\ styleAttached' = result.styleAttached
     /\ subscribed' = result.subscribed
     /\ systemTheme' =
          IF hasDom /\ initializeContainer(root) = NoError /\ ~insertBeforeThrows
             /\ ~matchMediaThrows
            THEN (IF mediaMatches THEN "light" ELSE "dark")
            ELSE systemTheme
     /\ CallResult(result.thrown)
     /\ Record(Op("constructor", root, NoTheme, NullData))
     /\ UNCHANGED <<themeMap, cssRules, dataTheme, baseVariables, disableFollowSystemTheme,
                    eventListeners, isDestroyed, mediaMatches>>

(* There is an instance to call once the constructor returned. *)
Constructed == lastOp.op # "new" /\ ~(lastOp.op = "constructor" /\ thrown # NoError)

NextConstruct ==
  \/ \E hasDom, insertBeforeThrows, matchMediaThrows, addEventListenerThrows \in BOOLEAN :
       \E root \in Roots :
         Construct(hasDom, root, insertBeforeThrows, matchMediaThrows, addEventListenerThrows)
  \/ Constructed /\ NextListeners

SpecConstruct == InitConstruct /\ [][NextConstruct]_vars

(***************************************************************************)
(* The ThemeManager variables in the specifications of the other           *)
(* facilities: a manager nobody calls.                                     *)
(***************************************************************************)
ManagerIdle ==
  /\ themeMap = <<>>
  /\ cssRules = <<>>
  /\ dataTheme = NoTheme
  /\ baseVariables = EmptyData
  /\ disableFollowSystemTheme = TRUE
  /\ mediaMatches = TRUE
  /\ systemTheme = "light"
  /\ eventListeners = [e \in Events |-> <<>>]
  /\ isDestroyed = FALSE
  /\ styleAttached = TRUE
  /\ subscribed = TRUE
  /\ emitted = <<>>
  /\ observed = <<>>
  /\ thrown = NoError
  /\ lastOp = Op("constructor", NoTheme, NoTheme, NullData)
  /\ prevRegister = NoPrev

(***************************************************************************)
(* createWorkerTask                                                        *)
(*                                                                         *)
(* A task closure is a record: worker (the Worker, FALSE once null),       *)
(* currentId, promises (the ids that have a controller in the Map), timers *)
(* (the ids whose setTimeout is armed), inbox (requests posted to the      *)
(* worker and not yet answered), outbox (answers the worker posted, not    *)
(* yet handled by onmessage).  calls logs, per call of the task function   *)
(* in order, the id it drew (0: none), whether postMessage was called for  *)
(* it, and every invocation of its promise's resolve or reject.            *)
(***************************************************************************)
MaxCalls == 3

NewTask(timeout) ==
  [timeout |-> timeout, worker |-> TRUE, currentId |-> 0, promises |-> {},
   timers |-> {}, inbox |-> {}, outbox |-> {}, calls |-> <<>>]

(* resolve or reject of the promise of the call that drew id. *)
Settle(t, id, outcome) ==
  [t EXCEPT !.calls =
     [k \in DOMAIN t.calls |->
        IF t.calls[k].id = id
          THEN [id |-> id, posted |-> t.calls[k].posted,
                settles |-> Append(t.calls[k].settles, outcome)]
          ELSE t.calls[k]]]

(* promises.forEach(clearTimeout, reject); promises.clear() *)
RejectAll(t, error) ==
  [t EXCEPT !.calls =
              [k \in DOMAIN t.calls |->
                 IF t.calls[k].id \in t.promises
                   THEN [id |-> t.calls[k].id, posted |-> t.calls[k].posted,
                         settles |-> Append(t.calls[k].settles, error)]
                   ELSE t.calls[k]],
            !.timers = @ \ t.promises,
            !.promises = {}]

(* The task function.  postMessageThrows: worker.postMessage throws (a
   DataCloneError, say). *)
workerTask(t, postMessageThrows) ==
  IF ~t.worker
    THEN [t EXCEPT !.calls = Append(@, [id |-> 0, posted |-> FALSE,
                                        settles |-> <<"Worker has been terminated">>])]
    ELSE LET id == t.currentId + 1
             stored == [t EXCEPT !.currentId = id,
                                 !.timers = IF t.timeout > 0 THEN @ \cup {id} ELSE @,
                                 !.promises = @ \cup {id},
                                 !.calls = Append(@, [id |-> id, posted |-> TRUE,
                                                      settles |-> <<>>])]
         IN IF postMessageThrows
              THEN Settle([stored EXCEPT !.timers = @ \ {id}, !.promises = @ \ {id}],
                          id, "Failed to send message to worker")
              ELSE [stored EXCEPT !.inbox = @ \cup {id}]

(* worker.onmessage for the message [id, status, result] *)
onmessage_KeepsTimer(t, id, status) ==
  IF id \notin t.promises
    THEN t
    ELSE Settle([t EXCEPT !.promises = @ \ {id}], id,
                IF status = "success" THEN "resolved" ELSE "Worker task failed")

onmessage(t, id, status) ==
  IF id \notin t.promises
    THEN t
    ELSE Settle([t EXCEPT !.timers = @ \ {id}, !.promises = @ \ {id}], id,
                IF status = "success" THEN "resolved" ELSE "Worker task failed")

(* The setTimeout callback of the call that drew id. *)
timeoutCallback(t, id) ==
  IF id \in t.promises
    THEN Settle([t EXCEPT !.promises = @ \ {id}], id, "Worker task timed out")
    ELSE t

(* worker.onerror *)
onerror(t) == RejectAll(t, "Worker error")

terminate_KeepsPending(t) ==
  IF t.worker
    THEN [t EXCEPT !.worker = FALSE, !.inbox = {}]
    ELSE t

(* The worker is gone with the requests it had not answered. *)
terminate(t) ==
  IF t.worker
    THEN [RejectAll(t, "Worker was terminated") EXCEPT !.worker = FALSE, !.inbox = {}]
    ELSE t

isActive(t) == t.worker

(* task is [fn, last, terminated]: the closure, the last step taken and the
   id it was about, and whether terminate() has been called. *)
InitWorkerTask ==
  /\ ManagerIdle
  /\ \E timeout \in {0, 1000} :
       Start([fn |-> NewTask(timeout), last |-> <<"createWorkerTask", 0>>,
              terminated |-> FALSE],
             Unused, Unused, Unused, Unused)

TaskStep(fn, op, id) ==
  Step([fn |-> fn, last |-> <<op, id>>, terminated |-> task.terminated \/ op = "terminate"],
       pool, chain, logger, compared)

(* At most MaxCalls calls of the task function are made. *)
Call(postMessageThrows) ==
  /\ Len(task.fn.calls) < MaxCalls
  /\ TaskStep(workerTask(task.fn, postMessageThrows), "call", 0)

(* The worker script answers a request: 'success' or 'error'. *)
WorkerRun(id, status) ==
  /\ id \in task.fn.inbox
  /\ TaskStep([task.fn EXCEPT !.inbox = @ \ {id}, !.outbox = @ \cup {<<id, status>>}],
              "run", id)

Message(m) ==
  /\ m \in task.fn.outbox
  /\ TaskStep(onmessage([task.fn EXCEPT !.outbox = @ \ {m}], m[1], m[2]), "message", m[1])

TimerFires(id) ==
  /\ id \in task.fn.timers
  /\ TaskStep(timeoutCallback([task.fn EXCEPT !.timers = @ \ {id}], id), "timer", id)

WorkerError ==
  /\ task.fn.worker
  /\ task.last[1] # "error"
  /\ TaskStep(onerror(task.fn), "error", 0)

Terminate ==
  /\ task.last[1] # "terminate"
  /\ TaskStep(terminate(task.fn), "terminate", 0)

NextWorkerTask ==
  \/ \E postMessageThrows \in BOOLEAN : Call(postMessageThrows)
  \/ \E id \in 1..MaxCalls : \E status \in {"success", "error"} : WorkerRun(id, status)
  \/ \E id \in 1..MaxCalls : \E status \in {"success", "error"} : Message(<<id, status>>)
  \/ \E id \in 1..MaxCalls : TimerFires(id)
  \/ WorkerError
  \/ Terminate

SpecWorkerTask == InitWorkerTask /\ [][NextWorkerTask]_vars

(***************************************************************************)
(* createWorkerPool                                                        *)
(*                                                                         *)
(* A pool closure is a record: workers (the array of task closures),       *)
(* currentWorkerIndex, poolSize.  calls logs, per call of the pool         *)
(* function in order, the index of the worker it was handed to (-1: none)  *)
(* and how the call ended for its caller: a "pending" or a "rejected"      *)
(* promise, or a "TypeError" thrown.                                       *)
(***************************************************************************)
MaxPoolSize == 2

(* The pool function.  workers[currentWorkerIndex] is undefined when the
   array is shorter; calling it throws a TypeError. *)
poolTask(p, postMessageThrows) ==
  LET i == p.currentWorkerIndex
      advanced == [p EXCEPT !.currentWorkerIndex = (i + 1) % p.poolSize]
  IN IF i + 1 \in DOMAIN p.workers
       THEN LET called == workerTask(p.workers[i + 1], postMessageThrows)
            IN [advanced EXCEPT
                  !.workers[i + 1] = called,
                  !.calls = Append(@, [worker |-> i,
                                       outcome |->
                                         IF called.calls[Len(called.calls)].settles = <<>>
                                           THEN "pending" ELSE "rejected"])]
       ELSE [advanced EXCEPT !.calls = Append(@, [worker |-> -1, outcome |-> "TypeError"])]

(* workers.forEach((worker) => worker.terminate()); workers.length = 0 *)
poolTerminate(p) == [p EXCEPT !.workers = <<>>]

poolIsActive(p) == \E i \in DOMAIN p.workers : isActive(p.workers[i])

(* pool is [fn, before]: the closure and, once terminate() has been
   called, the number of calls that were made before it (-1 until then). *)
InitWorkerPool ==
  /\ ManagerIdle
  /\ \E poolSize \in 1..MaxPoolSize :
       Start(Unused,
             [fn |-> [workers |-> [i \in 1..poolSize |-> NewTask(0)],
                      currentWorkerIndex |-> 0, poolSize |-> poolSize, calls |-> <<>>],
              before |-> -1],
             Unused, Unused, Unused)

NextWorkerPool ==
  \/ \E postMessageThrows \in BOOLEAN :
       /\ Len(pool.fn.calls) < MaxCalls
       /\ Step(task, [pool EXCEPT !.fn = poolTask(@, postMessageThrows)],
               chain, logger, compared)
  \/ \E i \in 1..MaxPoolSize : \E id \in 1..MaxCalls : \E status \in {"success", "error"} :
       /\ i \in DOMAIN pool.fn.workers
       /\ id \in pool.fn.workers[i].inbox
       /\ Step(task,
               [pool EXCEPT !.fn.workers[i] =
                  onmessage([@ EXCEPT !.inbox = @ \ {id}], id, status)],
               chain, logger, compared)
  \/ /\ pool.before = -1
     /\ Step(task, [fn |-> poolTerminate(pool.fn), before |-> Len(pool.fn.calls)],
             chain, logger, compared)

SpecWorkerPool == InitWorkerPool /\ [][NextWorkerPool]_vars

(***************************************************************************)
(* TaskChain                                                               *)
(*                                                                         *)
(* A chain is a record: nodes (the head and the nodes linked from it by    *)
(* nextTask, each [fn, isAbort]), and its run: status ("idle", "running",  *)
(* "resolved"), running (the node whose fn start() awaits, 0 if none),     *)
(* value (the last value produced: the start argument, then each task's    *)
(* result), executed (the tasks begun, in order, each with its argument).  *)
(* A task function is known by its name and appends it to what it is       *)
(* given, as the tasks of the class's example do.                          *)
(***************************************************************************)
MaxTasks == 3

TaskFunctions == {"task1", "task2"}

StartArgument == <<"hello">>

(* head.abort(): the head and, through nextTask, every node linked now. *)
abort(c) ==
  [c EXCEPT !.nodes = [i \in DOMAIN c.nodes |-> [fn |-> c.nodes[i].fn, isAbort |-> TRUE]]]

(* head.next(fn): a new node after the last one. *)
next(c, fn) == [c EXCEPT !.nodes = Append(@, [fn |-> fn, isAbort |-> FALSE])]

(* nodes[i].start(arg), up to its await of fn(arg). *)
start(c, i, arg) ==
  IF c.nodes[i].isAbort
    THEN [c EXCEPT !.status = "resolved", !.running = 0, !.value = arg]
    ELSE [c EXCEPT !.status = "running", !.running = i, !.value = arg,
                   !.executed = Append(@, [fn |-> c.nodes[i].fn, arg |-> arg])]

(* The awaited fn(arg) of the running node has its result: start() goes on
   after the await. *)
resume(c) ==
  LET result == Append(c.value, c.nodes[c.running].fn)
  IN IF c.running < Len(c.nodes)
       THEN start(c, c.running + 1, result)
       ELSE [c EXCEPT !.status = "resolved", !.running = 0, !.value = result]

(* chain is [its, atAbort]: the chain and, once abort() has been called,
   what it was like at the first call (<<>> until then). *)
InitTaskChain ==
  /\ ManagerIdle
  /\ \E fn \in TaskFunctions :
       Start(Unused, Unused,
             [its |-> [nodes |-> <<[fn |-> fn, isAbort |-> FALSE]>>, status |-> "idle",
                       running |-> 0, value |-> StartArgument, executed |-> <<>>],
              atAbort |-> <<>>],
             Unused, Unused)

(* next() and abort() are called before start(), from inside a running
   task, or while start() awaits one.  At most MaxTasks nodes are linked. *)
NextTaskChain ==
  \/ \E fn \in TaskFunctions :
       /\ Len(chain.its.nodes) < MaxTasks
       /\ chain.its.status # "resolved"
       /\ Step(task, pool, [chain EXCEPT !.its = next(@, fn)], logger, compared)
  \/ /\ chain.atAbort = <<>>
     /\ chain.its.status # "resolved"
     /\ Step(task, pool,
             [its |-> abort(chain.its),
              atAbort |-> <<[nodes |-> Len(chain.its.nodes),
                             begun |-> Len(chain.its.executed)]>>],
             logger, compared)
  \/ /\ chain.its.status = "idle"
     /\ Step(task, pool, [chain EXCEPT !.its = start(@, 1, StartArgument)], logger, compared)
  \/ /\ chain.its.status = "running"
     /\ Step(task, pool, [chain EXCEPT !.its = resume(@)], logger, compared)

SpecTaskChain == InitTaskChain /\ [][NextTaskChain]_vars

(***************************************************************************)
(* Logger (static side)                                                    *)
(*                                                                         *)
(* logger.its is a record: LogLevel (the exported object, whose ERROR      *)
(* property disable() and enable() redefine), logLevel                     *)
(* (staticConfig.logLevel), console (the console methods called, in        *)
(* order) and afterPrint (the levels the hook was called with, in order).  *)
(***************************************************************************)
MaxPrints == 2

(* Number.MAX_SAFE_INTEGER (2^53 - 1); only its order against the other
   levels is used, and it is above all of them here as well. *)
MAX_SAFE_INTEGER == 2147483647

LogLevel == [DEBUG |-> 0, LOG |-> 1, INFO |-> 2, SUCCESS |-> 3, WARN |-> 4, ERROR |-> 5]

(* printLog(level, staticConfig, args) *)
printLog(l, level) ==
  LET toUpperCase == [debug |-> "DEBUG", log |-> "LOG", info |-> "INFO",
                      success |-> "SUCCESS", warn |-> "WARN", error |-> "ERROR"]
  IN IF l.LogLevel[toUpperCase[level]] < l.LogLevel[l.logLevel]
       THEN l
       ELSE [l EXCEPT !.console = Append(@, IF level = "success" THEN "log" ELSE level),
                      !.afterPrint = Append(@, level)]

(* Logger.disable(): updateConfig({logLevel: 'ERROR'}), then LogLevel.ERROR
   is redefined. *)
disable(l) == [l EXCEPT !.logLevel = "ERROR", !.LogLevel.ERROR = MAX_SAFE_INTEGER]

(* Logger.enable(): LogLevel.ERROR is restored (originalErrorLevel), then
   updateConfig({logLevel: 'DEBUG'}). *)
enable(l) == [l EXCEPT !.LogLevel.ERROR = LogLevel.ERROR, !.logLevel = "DEBUG"]

(* logger is [its, disabled]: the class and, between a disable() and the
   next enable(), what the console and the hook had received when disable()
   was called (<<>> otherwise). *)
InitLogger ==
  /\ ManagerIdle
  /\ Start(Unused, Unused, Unused,
           [its |-> [LogLevel |-> LogLevel, logLevel |-> "LOG", console |-> <<>>,
                     afterPrint |-> <<>>],
            disabled |-> <<>>],
           Unused)

(* At most MaxPrints lines are written. *)
NextLogger ==
  \/ \E level \in {"debug", "log", "info", "success", "warn", "error"} :
       /\ Len(logger.its.console) < MaxPrints
       /\ Step(task, pool, chain, [logger EXCEPT !.its = printLog(@, level)], compared)
  \/ /\ logger.disabled = <<>>
     /\ Step(task, pool, chain,
             [its |-> disable(logger.its),
              disabled |-> <<logger.its.console, logger.its.afterPrint>>],
             compared)
  \/ /\ logger.disabled # <<>>
     /\ Step(task, pool, chain, [its |-> enable(logger.its), disabled |-> <<>>], compared)

SpecLogger == InitLogger /\ [][NextLogger]_vars

(***************************************************************************)
(* compareVersion                                                          *)
(*                                                                         *)
(* A version text is a sequence of characters.  A call's outcome is        *)
(* [value, thrown]: the number returned (0 when it threw) and the error    *)
(* thrown (NoError when it returned).                                      *)
(***************************************************************************)
MaxVersionLength == 3

(* The texts the function is called with: digits, dots and the prefix the
   default trimSymbolPattern removes. *)
VersionTexts == UNION {[1..n -> {"0", "1", ".", "v"}] : n \in 0..MaxVersionLength}

(* /^[0-9]+(\.[0-9]+)*$/.test(text) *)
versionRegex(text) ==
  /\ text # <<>>
  /\ \A i \in 1..Len(text) : text[i] \in {"0", "1", "2", "3", "4", "5", "6", "7", "8", "9", "."}
  /\ text[1] # "."
  /\ text[Len(text)] # "."
  /\ \A i \in 1..(Len(text) - 1) : ~(text[i] = "." /\ text[i + 1] = ".")

(* text.split('.') *)
RECURSIVE split(_)
split(text) ==
  IF \A i \in 1..Len(text) : text[i] # "."
    THEN <<text>>
    ELSE LET dot == CHOOSE i \in 1..Len(text) :
                      text[i] = "." /\ \A j \in 1..(i - 1) : text[j] # "."
         IN <<SubSeq(text, 1, dot - 1)>> \o split(SubSeq(text, dot + 1, Len(text)))

(* parseInt(digits, 10) of a non-empty run of digits *)
RECURSIVE parseInt(_)
parseInt(digits) ==
  IF digits = <<>> THEN 0
  ELSE LET last == digits[Len(digits)]
           digit == CHOOSE d \in 0..9 :
                      <<"0", "1", "2", "3", "4", "5", "6", "7", "8", "9">>[d + 1] = last
       IN 10 * parseInt(SubSeq(digits, 1, Len(digits) - 1)) + digit

compareVersion_NoPadding(currentVersion, comparedVersion) ==
  LET clean(text) == trim(SelectSeq(text, LAMBDA c : c \notin {"v", "V"}))
      v1Parts == split(clean(currentVersion))
      v2Parts == split(clean(comparedVersion))
      minLen == IF Len(v1Parts) < Len(v2Parts) THEN Len(v1Parts) ELSE Len(v2Parts)
      num(parts, i) == parseInt(IF i \in DOMAIN parts THEN parts[i] ELSE <<"0">>)
      RECURSIVE loop(_)
      loop(i) ==
        IF i > minLen THEN 0
        ELSE IF num(v1Parts, i) > num(v2Parts, i) THEN 1
        ELSE IF num(v1Parts, i) < num(v2Parts, i) THEN -1
        ELSE loop(i + 1)
  IN IF trim(currentVersion) = <<>> \/ trim(comparedVersion) = <<>>
       THEN [value |-> 0, thrown |-> "empty version"]
     ELSE IF ~versionRegex(clean(currentVersion)) \/ ~versionRegex(clean(comparedVersion))
       THEN [value |-> 0, thrown |-> "invalid version format"]
     ELSE [value |-> loop(1), thrown |-> NoError]

(* compareVersion(currentVersion, comparedVersion) with the default
   trimSymbolPattern /v/gi; parts[i] || '0' is the segment or '0'. *)
compareVersion(currentVersion, comparedVersion) ==
  LET clean(text) == trim(SelectSeq(text, LAMBDA c : c \notin {"v", "V"}))
      v1Parts == split(clean(currentVersion))
      v2Parts == split(clean(comparedVersion))
      maxLen == IF Len(v1Parts) > Len(v2Parts) THEN Len(v1Parts) ELSE Len(v2Parts)
      num(parts, i) == parseInt(IF i \in DOMAIN parts THEN parts[i] ELSE <<"0">>)
      RECURSIVE loop(_)
      loop(i) ==
        IF i > maxLen THEN 0
        ELSE IF num(v1Parts, i) > num(v2Parts, i) THEN 1
        ELSE IF num(v1Parts, i) < num(v2Parts, i) THEN -1
        ELSE loop(i + 1)
  IN IF trim(currentVersion) = <<>> \/ trim(comparedVersion) = <<>>
       THEN [value |-> 0, thrown |-> "empty version"]
     ELSE IF ~versionRegex(clean(currentVersion)) \/ ~versionRegex(clean(comparedVersion))
       THEN [value |-> 0, thrown |-> "invalid version format"]
     ELSE [value |-> loop(1), thrown |-> NoError]

(* compared is [currentVersion, comparedVersion, outcome]; outcome is <<>>
   until the call is made. *)
InitCompareVersion ==
  /\ ManagerIdle
  /\ \E a, b \in VersionTexts :
       Start(Unused, Unused, Unused, Unused,
             [currentVersion |-> a, comparedVersion |-> b, outcome |-> <<>>])

NextCompareVersion ==
  /\ compared.outcome = <<>>
  /\ Step(task, pool, chain, logger,
          [compared EXCEPT !.outcome =
             <<compareVersion(compared.currentVersion, compared.comparedVersion)>>])

SpecCompareVersion == InitCompareVersion /\ [][NextCompareVersion]_vars

(***************************************************************************)
(* Properties                                                              *)
(***************************************************************************)
EntriesOf(map, name) == {i \in 1..Len(map) : map[i].name = name}

RulesOf(rules, name) == {j \in 1..Len(rules) : rules[j].selector = name}

(* C1: while the manager is live, the style sheet holds exactly one rule per
   registered theme, and the rule at each theme's stored index is the rule
   compiled for that theme's name from {...baseVariables, ...stored data}. *)
C1_SheetMatchesRegistry ==
  ~isDestroyed =>
    /\ Len(cssRules) = Len(themeMap)
    /\ \A i \in 1..Len(themeMap) :
         /\ Cardinality(EntriesOf(themeMap, themeMap[i].name)) = 1
         /\ Cardinality(RulesOf(cssRules, themeMap[i].name)) = 1
         /\ themeMap[i].index \in 0..(Len(cssRules) - 1)
         /\ cssRules[themeMap[i].index + 1] =
              CompileRule(themeMap[i].name, Merge(baseVariables, themeMap[i].data))

(* An unregister removed a theme and left another one registered. *)
C1_Witness ==
  /\ lastOp.op = "unregister"
  /\ emitted # <<>>
  /\ Len(themeMap) >= 1
  /\ ~isDestroyed

(* C2: right after register(name, data) returned, getThemeData(name) is
   {...baseVariables, ...data}: the theme's keys win over the base keys. *)
C2_RegisterRoundTrip ==
  (lastOp.op = "register" /\ thrown = NoError) =>
    getThemeData(Manager, lastOp.name) =
      [k \in (DOMAIN baseVariables) \cup (DOMAIN lastOp.data) |->
         IF k \in DOMAIN lastOp.data THEN lastOp.data[k] ELSE baseVariables[k]]

(* A register returned whose data redefines a key of the base variables. *)
C2_Witness ==
  /\ lastOp.op = "register"
  /\ thrown = NoError
  /\ \E k \in (DOMAIN baseVariables) \cap (DOMAIN lastOp.data) : baseVariables[k] # lastOp.data[k]

(* C3: register(name, d1) and then register(name, d2) with d2 # d1 leaves
   one registry entry for name, with stored data d2, and as many rules in
   the style sheet as the first call left. *)
C3_ReplaceSemantics ==
  (/\ lastOp.op = "register"
   /\ thrown = NoError
   /\ prevRegister # NoPrev
   /\ prevRegister.name = lastOp.name
   /\ prevRegister.data # lastOp.data) =>
    /\ Cardinality(EntriesOf(themeMap, lastOp.name)) = 1
    /\ MapGet(themeMap, lastOp.name).data = lastOp.data
    /\ Len(cssRules) = prevRegister.rules

(* The second register returned, and d1 has a key that d2 has not. *)
C3_Witness ==
  /\ lastOp.op = "register"
  /\ thrown = NoError
  /\ prevRegister # NoPrev
  /\ prevRegister.name = lastOp.name
  /\ (DOMAIN prevRegister.data) \ (DOMAIN lastOp.data) # {}
  /\ Len(themeMap) >= 2

(* C4: register(name, data) called while name is the active theme leaves the
   container with data-theme=name, and getThemeData() with no argument
   returns {...baseVariables, ...data}. *)
C4_ReRegisterActiveStaysActive ==
  [][(/\ lastOp'.op = "register"
      /\ thrown' = NoError
      /\ dataTheme = lastOp'.name) =>
       (/\ dataTheme' = lastOp'.name
        /\ getThemeData(Manager', "") = Merge(baseVariables', lastOp'.data))]_vars

(* C5: with following enabled, no active theme and system theme s,
   register(s, data) makes 'default' the current theme, with
   getThemeData('default') = {...baseVariables, ...data}. *)
C5_RegisterSystemThemeActivatesDefault ==
  [][(/\ lastOp'.op = "register"
      /\ thrown' = NoError
      /\ ~disableFollowSystemTheme
      /\ dataTheme = NoTheme
      /\ lastOp'.name = systemTheme) =>
       (/\ dataTheme' = "default"
        /\ getThemeData(Manager', "default") = Merge(baseVariables', lastOp'.data))]_vars

(* C6: with following enabled, when the OS preference changes to s while the
   active theme is unset or 'default' and a theme named s is registered,
   then after the handler ran the current theme is 'default', one 'default'
   entry is registered and getThemeData('default') = getThemeData(s). *)
C6_FollowsSystemChange ==
  [][(/\ lastOp'.op = "systemThemeChange"
      /\ subscribed
      /\ ~disableFollowSystemTheme
      /\ dataTheme \in {NoTheme, "default"}
      /\ MapHas(themeMap, lastOp'.name)) =>
       (/\ thrown' = NoError
        /\ dataTheme' = "default"
        /\ Cardinality(EntriesOf(themeMap', "default")) = 1
        /\ getThemeData(Manager', "default") # NullData
        /\ getThemeData(Manager', "default") = getThemeData(Manager', lastOp'.name))]_vars

(* The handler ran on a change to a registered theme and registered
   'default' anew. *)
C6_Witness ==
  /\ lastOp.op = "systemThemeChange"
  /\ ~disableFollowSystemTheme
  /\ MapHas(themeMap, lastOp.name)
  /\ \E i \in 1..Len(emitted) : emitted[i].event = "themeRegister" /\ emitted[i].name = "default"
  /\ \E i \in 1..Len(emitted) : emitted[i].event = "themeUnregister"

(* C7: after updateBaseVariables(patch), for every registered theme and every
   key k of patch that the theme's stored data does not define,
   getThemeData(theme)[k] = patch[k] and the theme's rule declares k with
   that value; the registered names and the active theme are unchanged. *)
C7_BaseVariablesPropagate ==
  [][(lastOp'.op = "updateBaseVariables" /\ thrown' = NoError) =>
       (/\ MapKeys(themeMap') = MapKeys(themeMap)
        /\ Len(themeMap') = Len(themeMap)
        /\ dataTheme' = dataTheme
        /\ \A i \in 1..Len(themeMap) :
             /\ MapHas(themeMap', themeMap[i].name)
             /\ \A k \in (DOMAIN lastOp'.data) \ (DOMAIN themeMap[i].data) :
                  /\ k \in DOMAIN getThemeData(Manager', themeMap[i].name)
                  /\ getThemeData(Manager', themeMap[i].name)[k] = lastOp'.data[k]
                  /\ RulesOf(cssRules', themeMap[i].name) # {}
                  /\ \A j \in RulesOf(cssRules', themeMap[i].name) :
                       <<k, ToText(lastOp'.data[k])>> \in cssRules'[j].decls)]_vars

(* updateBaseVariables returned with a theme registered whose stored data
   does not define a key of the patch. *)
C7_Witness ==
  /\ lastOp.op = "updateBaseVariables"
  /\ thrown = NoError
  /\ \E i \in 1..Len(themeMap) : (DOMAIN lastOp.data) \ (DOMAIN themeMap[i].data) # {}

C9_DestroyReleasesEverything ==
  isDestroyed =>
    /\ themeMap = <<>>
    /\ ~styleAttached
    /\ dataTheme = NoTheme
    /\ ListenerCount(eventListeners) = 0
    /\ ~subscribed
    /\ lastOp.op = "systemThemeChange" =>
         /\ emitted = <<>>
         /\ DeliverAll(eventListeners, emitted) = <<>>
         /\ thrown = NoError

(* The OS preference changed after destroy. *)
C9_Witness ==
  /\ isDestroyed
  /\ lastOp.op = "systemThemeChange"

(* C10: a destroy of a destroyed manager does not throw and leaves the
   manager and the DOM as they were. *)
C10_DestroyIsIdempotent ==
  [][(isDestroyed /\ lastOp'.op = "destroy") =>
       (/\ thrown' = NoError
        /\ UNCHANGED <<themeMap, cssRules, dataTheme, baseVariables, disableFollowSystemTheme,
                       systemTheme, eventListeners, isDestroyed, styleAttached, subscribed>>)]_vars

(* destroy was called on a manager that was already destroyed. *)
C10_Witness ==
  /\ isDestroyed
  /\ lastOp.op = "destroy"
  /\ lastOp.name = "destroyed"

(* C11: toggle(name) with name registered leaves data-theme=name,
   getCurrentTheme() = name and getThemeData() with no argument =
   {...baseVariables, ...data of name}; toggle() with no argument (or null,
   or '') leaves the attribute absent and getCurrentTheme() null; the
   registry and the style sheet are unchanged in both cases. *)
C11_ToggleReflects ==
  [][(lastOp'.op = "toggle" /\ ~isDestroyed) =>
       (/\ (lastOp'.name \notin {NoTheme, ""} /\ MapHas(themeMap, lastOp'.name)) =>
              /\ thrown' = NoError
              /\ dataTheme' = lastOp'.name
              /\ getCurrentTheme(Manager') = lastOp'.name
              /\ getThemeData(Manager', NoTheme) =
                   Merge(baseVariables, MapGet(themeMap, lastOp'.name).data)
              /\ UNCHANGED <<themeMap, cssRules, baseVariables>>
        /\ lastOp'.name \in {NoTheme, ""} =>
              /\ thrown' = NoError
              /\ dataTheme' = NoTheme
              /\ getCurrentTheme(Manager') = NoTheme
              /\ UNCHANGED <<themeMap, cssRules, baseVariables>>)]_vars

(* A toggle made a registered theme active whose data and the base variables
   both define a key. *)
C11_Witness ==
  /\ lastOp.op = "toggle"
  /\ thrown = NoError
  /\ dataTheme = lastOp.name
  /\ MapHas(themeMap, lastOp.name)
  /\ (DOMAIN baseVariables) \cap (DOMAIN MapGet(themeMap, lastOp.name).data) # {}
  /\ Len(themeMap) >= 2

(* C12 as stated: toggle(name) with a non-empty name that is not registered
   fails with the unknown-theme error, leaves the attribute and the registry
   unchanged and emits nothing. *)
C12_ToggleUnknownFails ==
  [][(/\ lastOp'.op = "toggle"
      /\ ~isDestroyed
      /\ lastOp'.name \notin {NoTheme, ""}
      /\ ~MapHas(themeMap, lastOp'.name)) =>
       (/\ thrown' = UnknownThemeError
        /\ emitted' = <<>>
        /\ UNCHANGED <<themeMap, cssRules, dataTheme>>)]_vars

(* C12, amended: toggle(name) with a non-empty name that is not registered
   fails, with the unknown-theme error when the name passes the name
   validation and with the invalid-theme-name error when it does not; it
   leaves the attribute and the registry unchanged and emits nothing. *)
C12_ToggleUnregisteredFails ==
  [][(/\ lastOp'.op = "toggle"
      /\ ~isDestroyed
      /\ lastOp'.name \notin {NoTheme, ""}
      /\ ~MapHas(themeMap, lastOp'.name)) =>
       (/\ thrown' = IF isValidThemeName(lastOp'.name) THEN UnknownThemeError
                     ELSE InvalidThemeNameError
        /\ emitted' = <<>>
        /\ UNCHANGED <<themeMap, cssRules, dataTheme>>)]_vars

(* A toggle to a valid name that is not registered was refused while
   another theme was active. *)
C12_Witness ==
  /\ lastOp.op = "toggle"
  /\ thrown = UnknownThemeError
  /\ dataTheme # NoTheme
  /\ dataTheme # lastOp.name

(* C13: unregister(name) with name the active theme leaves name
   unregistered, the attribute absent (getCurrentTheme() null), and has
   emitted themeChange with (null, null), which went to every themeChange
   listener. *)
C13_UnregisterActiveClears ==
  [][(/\ lastOp'.op = "unregister"
      /\ ~isDestroyed
      /\ dataTheme = lastOp'.name) =>
       (/\ thrown' = NoError
        /\ ~MapHas(themeMap', lastOp'.name)
        /\ dataTheme' = NoTheme
        /\ getCurrentTheme(Manager') = NoTheme
        /\ \E i \in 1..Len(emitted') :
             emitted'[i] = [event |-> "themeChange", name |-> NoTheme, data |-> NullData]
        /\ \A j \in 1..Len(eventListeners'["themeChange"]) :
             \E d \in 1..Len(DeliverAll(eventListeners', emitted')) :
               /\ DeliverAll(eventListeners', emitted')[d].listener =
                    eventListeners'["themeChange"][j]
               /\ DeliverAll(eventListeners', emitted')[d].event = "themeChange"
               /\ DeliverAll(eventListeners', emitted')[d].name = NoTheme
               /\ DeliverAll(eventListeners', emitted')[d].data = NullData)]_vars

(* An unregister removed a theme, cleared the attribute, and a themeChange
   listener was registered. *)
C13_Witness ==
  /\ lastOp.op = "unregister"
  /\ dataTheme = NoTheme
  /\ Len(emitted) = 2
  /\ emitted[1].event = "themeUnregister"
  /\ emitted[2].event = "themeChange"
  /\ Len(eventListeners["themeChange"]) >= 1

(* C17: a register(name, data) that fails validation (name empty or
   whitespace, name with one of < > " ' &, or a value that is neither string
   nor number) raises the validation error, leaves the registry, the rules
   and the active theme unchanged and emits nothing, also when name is
   already registered. *)
C17_InvalidRegisterChangesNothing ==
  [][(/\ lastOp'.op = "register"
      /\ ~isDestroyed
      /\ (~isValidThemeName(lastOp'.name) \/ ~isValidThemeData(lastOp'.data))) =>
       (/\ thrown' = IF ~isValidThemeName(lastOp'.name) THEN InvalidThemeNameError
                     ELSE InvalidThemeDataError
        /\ emitted' = <<>>
        /\ UNCHANGED <<themeMap, cssRules, dataTheme, baseVariables>>)]_vars

(* A register with an invalid value was refused for a name that is
   registered and active. *)
C17_Witness ==
  /\ lastOp.op = "register"
  /\ thrown = InvalidThemeDataError
  /\ MapHas(themeMap, lastOp.name)
  /\ dataTheme = lastOp.name

(* C18: an OS preference change leaves the attribute and the registry (and
   the rules) unchanged when following is disabled, or a theme other than
   'default' is active, or no theme named after the new system theme is
   registered; the system theme is still updated and systemThemeChange is
   still emitted with the new value, and nothing else is emitted. *)
C18_SystemChangeFrame ==
  [][(/\ lastOp'.op = "systemThemeChange"
      /\ subscribed
      /\ \/ disableFollowSystemTheme
         \/ dataTheme \notin {NoTheme, "default"}
         \/ ~MapHas(themeMap, lastOp'.name)) =>
       (/\ thrown' = NoError
        /\ UNCHANGED <<themeMap, cssRules, dataTheme>>
        /\ systemTheme' = lastOp'.name
        /\ systemTheme' = (IF mediaMatches' THEN "light" ELSE "dark")
        /\ emitted' = <<[event |-> "systemThemeChange", name |-> lastOp'.name,
                         data |-> NullData]>>)]_vars

(* With following enabled, the OS preference changed to a registered theme
   while a theme other than 'default' was active. *)
C18_Witness ==
  /\ lastOp.op = "systemThemeChange"
  /\ ~isDestroyed
  /\ ~disableFollowSystemTheme
  /\ MapHas(themeMap, lastOp.name)
  /\ dataTheme \notin {NoTheme, "default"}
  /\ Len(emitted) = 1

(* C20: unregister(name) with name not registered returns without an
   error, emits nothing and leaves the registry, the rules and the
   attribute unchanged. *)
C20_UnregisterUnknownIsNoOp ==
  [][(/\ lastOp'.op = "unregister"
      /\ ~isDestroyed
      /\ ~MapHas(themeMap, lastOp'.name)) =>
       (/\ thrown' = NoError
        /\ emitted' = <<>>
        /\ UNCHANGED <<themeMap, cssRules, dataTheme, baseVariables>>)]_vars

(* An unregister of a name that is not registered returned while other
   themes were registered and one was active. *)
C20_Witness ==
  /\ lastOp.op = "unregister"
  /\ ~isDestroyed
  /\ thrown = NoError
  /\ emitted = <<>>
  /\ ~MapHas(themeMap, lastOp.name)
  /\ Len(themeMap) >= 1
  /\ dataTheme # NoTheme

(* The rule the style sheet holds for a registered theme. *)
RuleOf(map, rules, name) == rules[MapGet(map, name).index + 1]

(* C16 as stated: cloneTheme(source, target, overrides) with source
   registered leaves target registered with stored data
   {...storedData(source), ...overrides} and, when target differs from
   source, source's data and rule as they were; with source not registered
   it fails with the source-not-found error and leaves the registry and the
   style sheet unchanged. *)
C16_CloneRegistersTarget ==
  [][(lastOp'.op = "cloneTheme" /\ ~isDestroyed) =>
       (/\ MapHas(themeMap, lastOp'.name) =>
              /\ MapHas(themeMap', lastOp'.name2)
              /\ MapGet(themeMap', lastOp'.name2).data =
                   Merge(MapGet(themeMap, lastOp'.name).data, lastOp'.data)
              /\ getThemeData(Manager', lastOp'.name2) =
                   Merge(baseVariables,
                         Merge(MapGet(themeMap, lastOp'.name).data, lastOp'.data))
              /\ lastOp'.name2 # lastOp'.name =>
                   /\ MapHas(themeMap', lastOp'.name)
                   /\ MapGet(themeMap', lastOp'.name).data = MapGet(themeMap, lastOp'.name).data
                   /\ RuleOf(themeMap', cssRules', lastOp'.name) =
                        RuleOf(themeMap, cssRules, lastOp'.name)
        /\ ~MapHas(themeMap, lastOp'.name) =>
              /\ thrown' = SourceNotFoundError
              /\ UNCHANGED <<themeMap, cssRules>>)]_vars

(* C16, amended: the first part holds when target passes the name
   validation and {...storedData(source), ...overrides} passes the data
   validation; when one of them does not, the call fails with that
   validation error and leaves the registry and the style sheet unchanged,
   as it does with the source-not-found error when source is not
   registered. *)
C16_CloneRegistersValidTarget ==
  [][(lastOp'.op = "cloneTheme" /\ ~isDestroyed) =>
       LET source == lastOp'.name
           target == lastOp'.name2
           overrides == lastOp'.data
       IN /\ (/\ MapHas(themeMap, source)
               /\ isValidThemeName(target)
               /\ isValidThemeData(Merge(MapGet(themeMap, source).data, overrides))) =>
                 /\ thrown' = NoError
                 /\ MapHas(themeMap', target)
                 /\ Cardinality(EntriesOf(themeMap', target)) = 1
                 /\ MapGet(themeMap', target).data =
                      Merge(MapGet(themeMap, source).data, overrides)
                 /\ getThemeData(Manager', target) =
                      Merge(baseVariables, Merge(MapGet(themeMap, source).data, overrides))
                 /\ target # source =>
                      /\ MapHas(themeMap', source)
                      /\ MapGet(themeMap', source).data = MapGet(themeMap, source).data
                      /\ RuleOf(themeMap', cssRules', source) = RuleOf(themeMap, cssRules, source)
          /\ (/\ MapHas(themeMap, source)
               /\ ~(/\ isValidThemeName(target)
                    /\ isValidThemeData(Merge(MapGet(themeMap, source).data, overrides)))) =>
                 /\ thrown' = IF ~isValidThemeName(target) THEN InvalidThemeNameError
                              ELSE InvalidThemeDataError
                 /\ emitted' = <<>>
                 /\ UNCHANGED <<themeMap, cssRules, dataTheme>>
          /\ ~MapHas(themeMap, source) =>
                 /\ thrown' = SourceNotFoundError
                 /\ emitted' = <<>>
                 /\ UNCHANGED <<themeMap, cssRules, dataTheme>>]_vars

(* A cloneTheme replaced a registered target with the source's data under
   an override of one of its keys, with base variables set. *)
C16_Witness ==
  /\ lastOp.op = "cloneTheme"
  /\ thrown = NoError
  /\ lastOp.name2 # lastOp.name
  /\ \E i \in 1..Len(emitted) : emitted[i].event = "themeUnregister"
  /\ MapHas(themeMap, lastOp.name)
  /\ \E k \in (DOMAIN lastOp.data) \cap (DOMAIN MapGet(themeMap, lastOp.name).data) :
       lastOp.data[k] # MapGet(themeMap, lastOp.name).data[k]
  /\ baseVariables # EmptyData

(* The invocations of listener l for event e among the deliveries. *)
Invocations(deliveries, e, l) ==
  {d \in 1..Len(deliveries) : deliveries[d].event = e /\ deliveries[d].listener = l}

Emissions(events, e) == {i \in 1..Len(events) : events[i].event = e}

(* C14: when a listener threw during a call, the call returned without an
   error, every listener registered for an emitted event was invoked once
   per emission with the emitted arguments, also those after the one that
   threw, and the call's state change is complete: toggle set or removed the
   attribute, register left the theme registered with its data and rule,
   unregister left it unregistered without a rule, and the OS-change handler
   stored the new system theme, emitted systemThemeChange last and, where it
   registered 'default' anew, made it the active theme. *)
C14_ListenerIsolation ==
  LET deliveries == DeliverAll(eventListeners, emitted)
  IN (\E d \in 1..Len(deliveries) : deliveries[d].threw) =>
       /\ thrown = NoError
       /\ \A i \in 1..Len(emitted) :
            \A j \in 1..Len(eventListeners[emitted[i].event]) :
              /\ \E d \in 1..Len(deliveries) :
                   deliveries[d] =
                     [event |-> emitted[i].event,
                      listener |-> eventListeners[emitted[i].event][j],
                      name |-> emitted[i].name, data |-> emitted[i].data,
                      threw |-> ListenerThrows(eventListeners[emitted[i].event][j])]
              /\ Cardinality(Invocations(deliveries, emitted[i].event,
                                         eventListeners[emitted[i].event][j])) =
                   Cardinality(Emissions(emitted, emitted[i].event))
       /\ lastOp.op = "toggle" =>
            dataTheme = (IF lastOp.name \in {NoTheme, ""} THEN NoTheme ELSE lastOp.name)
       /\ lastOp.op = "register" =>
            /\ MapHas(themeMap, lastOp.name)
            /\ MapGet(themeMap, lastOp.name).data = lastOp.data
            /\ RuleOf(themeMap, cssRules, lastOp.name) =
                 CompileRule(lastOp.name, Merge(baseVariables, lastOp.data))
       /\ lastOp.op = "unregister" =>
            /\ ~MapHas(themeMap, lastOp.name)
            /\ RulesOf(cssRules, lastOp.name) = {}
            /\ dataTheme # lastOp.name
       /\ lastOp.op = "systemThemeChange" =>
            /\ systemTheme = lastOp.name
            /\ emitted[Len(emitted)] =
                 [event |-> "systemThemeChange", name |-> lastOp.name, data |-> NullData]
            /\ (\E i \in 1..Len(emitted) : emitted[i].event = "themeRegister") =>
                 /\ dataTheme = "default"
                 /\ getThemeData(Manager, "default") = getThemeData(Manager, lastOp.name)

(* A register emitted themeRegister to two listeners, the first of which
   threw. *)
C14_Witness ==
  /\ lastOp.op = "register"
  /\ eventListeners["themeRegister"] = <<"g", "f">>
  /\ Len(DeliverAll(eventListeners, emitted)) = 2
  /\ DeliverAll(eventListeners, emitted)[1].threw
  /\ DeliverAll(eventListeners, emitted)[2].listener = "f"

(* C15: on(event, l) with l already registered for event leaves the listener
   registry and the count getStatus reports as they were, and no event holds
   a listener twice, so that a listener is invoked once per emission;
   off(event, l) leaves l unregistered for event and every other listener
   in place, so that l is not invoked by a later emission;
   clearListeners(event) empties that event's listeners and leaves those of
   every other event. *)
C15_ListenerSetSemantics ==
  [][/\ (lastOp'.op = "on" /\ SetHas(eventListeners[lastOp'.name], lastOp'.name2)) =>
          /\ thrown' = NoError
          /\ UNCHANGED eventListeners
          /\ getStatus(Manager)'.eventListeners = getStatus(Manager).eventListeners
     /\ (lastOp'.op = "on" /\ ~SetHas(eventListeners[lastOp'.name], lastOp'.name2)) =>
          /\ eventListeners' =
               [eventListeners EXCEPT ![lastOp'.name] = Append(@, lastOp'.name2)]
          /\ getStatus(Manager)'.eventListeners = getStatus(Manager).eventListeners + 1
     /\ \A e \in Events :
          /\ \A i, j \in 1..Len(eventListeners'[e]) :
               eventListeners'[e][i] = eventListeners'[e][j] => i = j
          /\ \A l \in Listeners :
               Cardinality(Invocations(DeliverAll(eventListeners', emitted'), e, l)) =
                 IF SetHas(eventListeners'[e], l)
                   THEN Cardinality(Emissions(emitted', e)) ELSE 0
     /\ lastOp'.op = "off" =>
          /\ thrown' = NoError
          /\ ~SetHas(eventListeners'[lastOp'.name], lastOp'.name2)
          /\ eventListeners' =
               [eventListeners EXCEPT ![lastOp'.name] =
                  SelectSeq(@, LAMBDA l : l # lastOp'.name2)]
     /\ (lastOp'.op = "clearListeners" /\ lastOp'.name # NoTheme) =>
          /\ thrown' = NoError
          /\ eventListeners'[lastOp'.name] = <<>>
          /\ \A e \in Events \ {lastOp'.name} : eventListeners'[e] = eventListeners[e]]_vars

(* on() was called for a listener that was already registered for the
   event, with a listener registered for another event as well. *)
C15_Witness ==
  /\ lastOp.op = "on"
  /\ lastOp.data = AlreadyRegistered
  /\ thrown = NoError
  /\ \E e \in Events \ {lastOp.name} : eventListeners[e] # <<>>

(* C19: when the constructor throws (the root selector matches nothing, the
   root is not an element, the style element cannot be inserted, or the
   media query cannot be opened or subscribed to), the container holds no
   injected style element and no subscription to the OS preference
   remains. *)
C19_FailedConstructionLeavesNothing ==
  (lastOp.op = "constructor" /\ thrown # NoError) => (~styleAttached /\ ~subscribed)

(* C26: after each call returned, and inside the callback of every listener
   that a call invoked, getCurrentTheme() is null or the name of a
   registered theme. *)
C26_ActiveThemeIsRegistered ==
  ~isDestroyed =>
    /\ (dataTheme = NoTheme \/ MapHas(themeMap, dataTheme))
    /\ \A i \in 1..Len(emitted) :
         eventListeners[emitted[i].event] # <<>> =>
           (\/ observed[i].currentTheme = NoTheme
            \/ observed[i].currentTheme \in observed[i].themeNames)

(* C27: in one OS-preference change callback, every event is emitted with
   the new system theme already stored, systemThemeChange is emitted once
   and last, after the themeChange of a re-applied default theme, and a
   systemThemeChange listener finds the getters as they are when the
   callback has returned: with the default theme re-applied, 'default' is
   the current theme and its data is the data of the new system theme. *)
C27_SystemChangeEventOrder ==
  (lastOp.op = "systemThemeChange" /\ ~isDestroyed) =>
    /\ emitted # <<>>
    /\ emitted[Len(emitted)] =
         [event |-> "systemThemeChange", name |-> lastOp.name, data |-> NullData]
    /\ \A i \in 1..(Len(emitted) - 1) : emitted[i].event # "systemThemeChange"
    /\ \A i \in 1..Len(observed) : observed[i].systemTheme = lastOp.name
    /\ systemTheme = lastOp.name
    /\ observed[Len(observed)].currentTheme = getCurrentTheme(Manager)
    /\ observed[Len(observed)].themeData = getThemeData(Manager, NoTheme)
    /\ observed[Len(observed)].themeNames = MapKeys(themeMap)
    /\ (~disableFollowSystemTheme /\ MapHas(themeMap, lastOp.name) /\ dataTheme = "default") =>
         /\ \E i \in 1..(Len(emitted) - 1) :
              emitted[i] = [event |-> "themeChange", name |-> "default",
                            data |-> getThemeData(Manager, lastOp.name)]
         /\ observed[Len(observed)].currentTheme = "default"
         /\ observed[Len(observed)].themeData = getThemeData(Manager, lastOp.name)

(* An OS-preference change replaced an active 'default' theme by the new
   system theme's data, with base variables set. *)
C27_Witness ==
  /\ lastOp.op = "systemThemeChange"
  /\ ~isDestroyed
  /\ Len(emitted) = 5
  /\ emitted[1].event = "themeUnregister"
  /\ emitted[4].event = "themeChange"
  /\ dataTheme = "default"
  /\ MapHas(themeMap, lastOp.name)
  /\ baseVariables # EmptyData

(* C25: with following enabled and 'default' never registered by the
   caller, whenever 'default' is the active theme and a theme named after
   the current system theme is registered, getThemeData('default') equals
   getThemeData(<system theme>). *)
C25_DefaultMirrorsSystemTheme ==
  (/\ ~disableFollowSystemTheme
   /\ dataTheme = "default"
   /\ MapHas(themeMap, systemTheme)) =>
    getThemeData(Manager, "default") = getThemeData(Manager, systemTheme)

(* C28: in the earlier stage, after any sequence of register and unregister
   calls, the stored rule index of each registered theme is the index of a
   rule of the style sheet, and that rule is the theme's own, so that
   unregister deletes the rule of the theme it is called for. *)
C28_EarlierIndexIsOwnRule ==
  \A i \in 1..Len(themeMap) :
    /\ themeMap[i].index \in 0..(Len(cssRules) - 1)
    /\ cssRules[themeMap[i].index + 1].selector = themeMap[i].name

(* C21: the promise of each call of a worker task is settled at most once;
   terminate() rejects every call that is in flight and leaves none pending,
   every call made after it is rejected with the 'terminated' error without
   a postMessage, and isActive() is false from then on. *)
C21_TerminateSettlesEverything ==
  [][LET t == task.fn
         u == task'.fn
     IN /\ \A k \in DOMAIN u.calls : Len(u.calls[k].settles) <= 1
        /\ task'.last[1] = "terminate" =>
             \A k \in DOMAIN t.calls :
               u.calls[k].settles =
                 IF t.calls[k].settles = <<>> THEN <<"Worker was terminated">>
                 ELSE t.calls[k].settles
        /\ task'.terminated =>
             /\ ~isActive(u)
             /\ u.promises = {}
             /\ \A k \in DOMAIN u.calls : Len(u.calls[k].settles) = 1
        /\ (task.terminated /\ task'.last[1] = "call") =>
             /\ u.calls[Len(u.calls)] =
                  [id |-> 0, posted |-> FALSE, settles |-> <<"Worker has been terminated">>]
             /\ u.inbox = t.inbox
             /\ u.currentId = t.currentId]_vars

C21_Witness ==
  /\ task.terminated
  /\ task.last[1] = "call"
  /\ \E k \in DOMAIN task.fn.calls : task.fn.calls[k].settles = <<"Worker was terminated">>
  /\ \E k \in DOMAIN task.fn.calls : task.fn.calls[k].settles = <<"resolved">>

(* C29: with a positive timeout, the reply and the timer race and one of
   them wins.  A timer that fires while the call is pending rejects it with
   the timeout error, and a reply that comes later is dropped; a reply that
   comes while the call is pending settles it and cancels the timer, which
   never rejects it.  No other call is affected by either. *)
C29_TimeoutRace ==
  [][LET t == task.fn
         u == task'.fn
         op == task'.last[1]
         id == task'.last[2]
         CallOf == {k \in DOMAIN t.calls : t.calls[k].id = id}
         OthersUntouched ==
           /\ \A k \in DOMAIN t.calls : t.calls[k].id # id => u.calls[k] = t.calls[k]
           /\ u.promises \ {id} = t.promises \ {id}
           /\ u.timers \ {id} = t.timers \ {id}
     IN t.timeout > 0 =>
          /\ \A k \in DOMAIN u.calls : Len(u.calls[k].settles) <= 1
          /\ op = "timer" =>
               /\ \A k \in CallOf :
                    u.calls[k].settles =
                      IF id \in t.promises THEN <<"Worker task timed out">>
                      ELSE t.calls[k].settles
               /\ id \notin u.promises
               /\ OthersUntouched
          /\ op = "message" =>
               /\ \A k \in CallOf :
                    IF id \in t.promises
                      THEN /\ u.calls[k].settles \in {<<"resolved">>, <<"Worker task failed">>}
                           /\ id \notin u.timers
                      ELSE u.calls[k].settles = t.calls[k].settles
               /\ id \notin u.promises
               /\ OthersUntouched]_vars

C29_Witness ==
  /\ task.fn.timeout > 0
  /\ task.last = <<"message", 1>>
  /\ task.fn.calls[1].settles = <<"Worker task timed out">>
  /\ 2 \in task.fn.promises
  /\ 2 \in task.fn.timers
  /\ Len(task.fn.calls) = 3
  /\ task.fn.calls[3].settles = <<"resolved">>

(* C30: once terminate() has been called on a worker pool, isActive() is
   false and every later call of the pool function returns a rejected
   promise and never throws; before that, the k-th call (from 0) is handed
   to worker k mod poolSize. *)
C30_PoolAfterTerminate ==
  LET p == pool.fn
  IN /\ pool.before # -1 => ~poolIsActive(p)
     /\ \A k \in DOMAIN p.calls :
          IF pool.before # -1 /\ k > pool.before
            THEN p.calls[k].outcome = "rejected"
            ELSE p.calls[k].worker = (k - 1) % p.poolSize

(* C22: the tasks of a chain run in the order they were added, each on the
   previous one's result (the first on the start argument); once abort() has
   been called, before start() or while a task runs, no task that had not
   begun is executed, and start() resolves with the last value produced by
   the tasks that had begun by then (the start argument if none had). *)
C22_AbortStopsChain ==
  LET c == chain.its
      begun == chain.atAbort[1].begun
  IN /\ \A k \in 1..Len(c.executed) :
          /\ c.executed[k].fn = c.nodes[k].fn
          /\ c.executed[k].arg =
               IF k = 1 THEN StartArgument
               ELSE Append(c.executed[k - 1].arg, c.executed[k - 1].fn)
     /\ chain.atAbort # <<>> =>
          /\ Len(c.executed) <= begun
          /\ c.status = "resolved" =>
               c.value = IF begun = 0 THEN StartArgument
                         ELSE Append(c.executed[begun].arg, c.executed[begun].fn)

(* C23: between Logger.disable() and the next Logger.enable(), none of the
   static methods debug, log, info, success, warn and error writes to the
   console or calls the afterPrint hook. *)
C23_DisableSilencesAll ==
  logger.disabled # <<>> =>
    /\ logger.its.console = logger.disabled[1]
    /\ logger.its.afterPrint = logger.disabled[2]

(* C24: for valid dotted-numeric versions compareVersion compares segment
   by segment as numbers, a missing trailing segment counting as 0: the
   result is 1 or -1 by the first segment that differs and 0 if none does;
   a version whose extra trailing segments are not all zero is greater than
   its prefix; and compareVersion(a, b) = -compareVersion(b, a). *)
C24_CompareVersionOrder ==
  compared.outcome # <<>> =>
    LET a == SelectSeq(compared.currentVersion, LAMBDA c : c # "v")
        b == SelectSeq(compared.comparedVersion, LAMBDA c : c # "v")
        result == compared.outcome[1]
        A == [i \in 1..Len(split(a)) |-> parseInt(split(a)[i])]
        B == [i \in 1..Len(split(b)) |-> parseInt(split(b)[i])]
        At(S, i) == IF i <= Len(S) THEN S[i] ELSE 0
        Greater(S, T) ==
          \E i \in 1..(Len(S) + Len(T)) :
            /\ At(S, i) > At(T, i)
            /\ \A j \in 1..(i - 1) : At(S, j) = At(T, j)
    IN (versionRegex(a) /\ versionRegex(b)) =>
         /\ result.thrown = NoError
         /\ result.value = (IF Greater(A, B) THEN 1 ELSE IF Greater(B, A) THEN -1 ELSE 0)
         /\ (/\ Len(A) > Len(B)
             /\ SubSeq(A, 1, Len(B)) = B
             /\ \E i \in (Len(B) + 1)..Len(A) : A[i] # 0) => result.value = 1
         /\ result.value =
              0 - compareVersion(compared.comparedVersion, compared.currentVersion).value

C24_Witness ==
  /\ compared.currentVersion = <<"1", ".", "1">>
  /\ compared.comparedVersion = <<"v", "1">>
  /\ compared.outcome = <<[value |-> 1, thrown |-> NoError]>>

====
